---- MODULE Spec2Model ----
(***************************************************************************)
(* Model of the static-site build script of railwaymodellingdirectorycom   *)
(* (the revision of build.ts with the upcoming filter, the month views and *)
(* the calendar exports).                                                  *)
(*                                                                         *)
(* Encoding of the program's values:                                       *)
(*   - a string is a tuple of one-character strings; the empty tuple is    *)
(*     the empty string and also stands for an absent (undefined) optional *)
(*     field: the code reads every optional field through `||`, which      *)
(*     treats both alike;                                                  *)
(*   - an ISO date string "YYYY-MM-DD" is the tuple <<y, m, d>>: comparing *)
(*     such strings with < is comparing the tuples lexicographically;      *)
(*   - a compact date string "YYYYMMDD" is the number y*10000 + m*100 + d; *)
(*   - a Date object is its time value in seconds since the Unix epoch     *)
(*     (milliseconds are dropped: every instant the build computes is a    *)
(*     whole second except 23:59:59.999, kept as 23:59:59);                *)
(*   - the host's time zone, which the local-time methods of Date read, is *)
(*     an input of the build like the clock and the fetched document.      *)
(***************************************************************************)
EXTENDS Integers, Sequences, FiniteSets, TLC

\* ------------------------------------------------------------------ bounds
MaxEvents == 3

\* --------------------------------------------------------- calendar (Date)
\* Day number of a civil date, counted from 1970-01-01 (ECMAScript MakeDay).
DaysFromCivil(y, m, d) ==
  LET yy  == IF m <= 2 THEN y - 1 ELSE y
      era == yy \div 400
      yoe == yy - era * 400
      mp  == IF m > 2 THEN m - 3 ELSE m + 9
      doy == (153 * mp + 2) \div 5 + d - 1
      doe == yoe * 365 + yoe \div 4 - yoe \div 100 + doy
  IN  era * 146097 + doe - 719468

\* Civil date <<y, m, d>> of a day number (ECMAScript YearFromTime,
\* MonthFromTime, DateFromTime).
CivilFromDays(z) ==
  LET zz  == z + 719468
      era == zz \div 146097
      doe == zz - era * 146097
      yoe == (doe - doe \div 1460 + doe \div 36524 - doe \div 146096) \div 365
      doy == doe - (365 * yoe + yoe \div 4 - yoe \div 100)
      mp  == (5 * doy + 2) \div 153
      d   == doy - (153 * mp + 2) \div 5 + 1
      m   == IF mp < 10 THEN mp + 3 ELSE mp - 9
      y   == yoe + era * 400
  IN  <<IF m <= 2 THEN y + 1 ELSE y, m, d>>

\* The instant of a UTC wall-clock time.
UTCInstant(y, m, d, hh, mi) == DaysFromCivil(y, m, d) * 86400 + hh * 3600 + mi * 60

\* ------------------------------------------------------------- host zones
\* The zones a build host may be set to.  UTC is what hosted build services
\* use; the other two are a developer's machine (README: "npm run dev").
HostZones == {"UTC", "Europe/London", "America/New_York"}

\* Standard offset from UTC, in seconds.
StdOffset(zone) ==
  CASE zone = "UTC"              -> 0
    [] zone = "Europe/London"    -> 0
    [] zone = "America/New_York" -> -18000

\* First and last instant of daylight-saving time in 2026 (none for UTC).
DstStart(zone) ==
  CASE zone = "UTC"              -> 0
    [] zone = "Europe/London"    -> UTCInstant(2026, 3, 29, 1, 0)
    [] zone = "America/New_York" -> UTCInstant(2026, 3, 8, 7, 0)

DstEnd(zone) ==
  CASE zone = "UTC"              -> 0
    [] zone = "Europe/London"    -> UTCInstant(2026, 10, 25, 1, 0)
    [] zone = "America/New_York" -> UTCInstant(2026, 11, 1, 6, 0)

\* Offset of local time from UTC at instant t (ECMAScript LocalTZA, UTC input).
Offset(zone, t) ==
  IF DstStart(zone) <= t /\ t < DstEnd(zone) THEN StdOffset(zone) + 3600
  ELSE StdOffset(zone)

\* Local wall-clock time of instant t, in seconds (ECMAScript LocalTime).
LocalTime(zone, t) == t + Offset(zone, t)

\* The instant of a local wall-clock time (ECMAScript UTC(t)): the earlier of
\* two instants when the wall-clock time repeats, and the offset in force
\* before the transition when the wall-clock time is skipped.
LocalToUTC(zone, lt) ==
  LET cands == {lt - StdOffset(zone), lt - StdOffset(zone) - 3600}
      valid == {u \in cands : LocalTime(zone, u) = lt}
  IN  IF valid # {} THEN CHOOSE u \in valid : \A v \in valid : u <= v
      ELSE lt - StdOffset(zone)

\* ------------------------------------------------------- Date object methods
\* new Date("YYYY-MM-DD"): a date-only string is parsed as UTC midnight.
ParseDateOnly(ds) == DaysFromCivil(ds[1], ds[2], ds[3]) * 86400

\* new Date("YYYY-MM-DD" + "T00:00:00"): a date-time string without an offset
\* is parsed as local time.
ParseLocalMidnight(zone, ds) ==
  LocalToUTC(zone, DaysFromCivil(ds[1], ds[2], ds[3]) * 86400)

\* Local civil date <<y, m, d>> of an instant.
LocalCivil(zone, t) == CivilFromDays(LocalTime(zone, t) \div 86400)

getFullYear(zone, t) == LocalCivil(zone, t)[1]
getMonth(zone, t)    == LocalCivil(zone, t)[2] - 1
getDate(zone, t)     == LocalCivil(zone, t)[3]

\* date.setHours(hh, mi, ss, ms): same local day, new local time of day.
setHours(zone, t, hh, mi, ss) ==
  LocalToUTC(zone, (LocalTime(zone, t) \div 86400) * 86400
                   + hh * 3600 + mi * 60 + ss)

\* date.setDate(day): same local year, month and time of day, new day of the
\* month; a day past the end of the month rolls over into the next month.
setDate(zone, t, day) ==
  LET c == LocalCivil(zone, t)
  IN  LocalToUTC(zone, (DaysFromCivil(c[1], c[2], 1) + day - 1) * 86400
                       + (LocalTime(zone, t) % 86400))

\* date.toISOString().split('T')[0]: the UTC civil date, as a date string.
toISODate(t) == CivilFromDays(t \div 86400)

\* date.toISOString(): the UTC civil date and time of day.
toISOString(t) ==
  [date |-> CivilFromDays(t \div 86400),
   hh   |-> (t % 86400) \div 3600,
   mi   |-> (t % 3600) \div 60,
   ss   |-> t % 60]

\* ------------------------------------------------------------------ strings
\* a < b on strings whose characters are given as numbers (date strings).
RECURSIVE StrLess(_, _)
StrLess(a, b) ==
  IF b = <<>> THEN FALSE
  ELSE IF a = <<>> THEN TRUE
  ELSE IF a[1] # b[1] THEN a[1] < b[1]
  ELSE StrLess(Tail(a), Tail(b))

\* `x || y` on optional strings: x unless it is absent or empty.
Or(x, y) == IF x # <<>> THEN x ELSE y

UpperCase == <<"A", "B", "C", "D", "E", "F", "G", "H", "I", "J", "K", "L", "M",
               "N", "O", "P", "Q", "R", "S", "T", "U", "V", "W", "X", "Y", "Z">>
LowerCase == <<"a", "b", "c", "d", "e", "f", "g", "h", "i", "j", "k", "l", "m",
               "n", "o", "p", "q", "r", "s", "t", "u", "v", "w", "x", "y", "z">>
DigitChars == {"0", "1", "2", "3", "4", "5", "6", "7", "8", "9"}
SpaceChars == {" ", "\t"}

IsUpper(c) == \E i \in 1..26 : UpperCase[i] = c
IsLower(c) == \E i \in 1..26 : LowerCase[i] = c

\* One character of text.toLowerCase().
toLowerCase(c) ==
  IF IsUpper(c) THEN LowerCase[CHOOSE i \in 1..26 : UpperCase[i] = c] ELSE c

\* One step of text.replace(/\s+/g, '-').replace(/[^a-z0-9-]/g, '') on lowered
\* text: a run of white space becomes one dash, a character outside
\* [a-z0-9-] is dropped.  prevSpace tells whether the previous character was
\* white space (its run has already produced its dash).
RECURSIVE SlugFrom(_, _)
SlugFrom(text, prevSpace) ==
  IF text = <<>> THEN <<>>
  ELSE LET c == toLowerCase(Head(text))
       IN  IF c \in SpaceChars
           THEN (IF prevSpace THEN <<>> ELSE <<"-">>) \o SlugFrom(Tail(text), TRUE)
           ELSE IF IsLower(c) \/ c \in DigitChars \/ c = "-"
           THEN <<c>> \o SlugFrom(Tail(text), FALSE)
           ELSE SlugFrom(Tail(text), FALSE)

slugify(text) == SlugFrom(text, FALSE)

\* Collation weight of a character for localeCompare: white space before
\* digits before letters, letters without regard to case.
CollationWeight(c) ==
  LET l == toLowerCase(c)
  IN  IF c \in SpaceChars THEN 0
      ELSE IF c \in DigitChars THEN 1
      ELSE IF IsLower(l) THEN 1 + (CHOOSE i \in 1..26 : LowerCase[i] = l)
      ELSE 28

\* Case weights of a string for localeCompare: lower case before upper case.
RECURSIVE CaseWeights(_)
CaseWeights(a) ==
  IF a = <<>> THEN <<>>
  ELSE <<IF IsUpper(Head(a)) THEN 1 ELSE 0>> \o CaseWeights(Tail(a))

RECURSIVE CollationWeights(_)
CollationWeights(a) ==
  IF a = <<>> THEN <<>> ELSE <<CollationWeight(Head(a))>> \o CollationWeights(Tail(a))

\* a.localeCompare(b): negative, zero or positive.
localeCompare(a, b) ==
  LET pa == CollationWeights(a)
      pb == CollationWeights(b)
  IN  IF StrLess(pa, pb) THEN -1
      ELSE IF StrLess(pb, pa) THEN 1
      ELSE IF StrLess(CaseWeights(a), CaseWeights(b)) THEN -1
      ELSE IF StrLess(CaseWeights(b), CaseWeights(a)) THEN 1
      ELSE 0

\* Array.prototype.sort(compare) is stable: an insertion sort that moves an
\* element left only past elements that compare greater than it.  compare is
\* the comparator as a function on the pairs of elements of the array.
RECURSIVE InsertBy(_, _, _)
InsertBy(compare, s, x) ==
  IF s = <<>> THEN <<x>>
  ELSE IF compare[<<s[Len(s)], x>>] > 0
       THEN Append(InsertBy(compare, SubSeq(s, 1, Len(s) - 1), x), s[Len(s)])
       ELSE Append(s, x)

RECURSIVE SortBy(_, _)
SortBy(compare, s) ==
  IF s = <<>> THEN <<>>
  ELSE InsertBy(compare, SortBy(compare, SubSeq(s, 1, Len(s) - 1)), s[Len(s)])

\* The pairs of elements of an array.
Pairs(s) == {s[i] : i \in 1..Len(s)} \X {s[i] : i \in 1..Len(s)}

\* ------------------------------------------------------------ event records
\* The fields of Event (types.ts) that the build's date and county logic
\* reads.  An absent field is <<>>.
Ev(name, startDate, start_date, date, endDate, end_date, county) ==
  [name |-> name, startDate |-> startDate, start_date |-> start_date,
   date |-> date, endDate |-> endDate, end_date |-> end_date,
   county |-> county]

Kent         == <<"K", "e", "n", "t">>
Devon        == <<"D", "e", "v", "o", "n">>
Yorkshire    == <<"Y", "o", "r", "k", "s", "h", "i", "r", "e">>
NotSpecified == <<"N", "o", "t", " ", "S", "p", "e", "c", "i", "f", "i", "e", "d">>

\* The records a fetched document may hold: multi-day and single-day events,
\* events at the end of a month and of a year, on the days the clocks go
\* forward, with every alias of the start and end date, without a start date,
\* without any date, with and without a county.  Daylight-saving time is
\* modelled for 2026 only: the dates outside 2026 are winter dates.
EventPool ==
  { Ev(<<"A", "b">>, <<>>, <<>>, <<2026, 2, 7>>, <<>>, <<2026, 2, 9>>, Kent),
    Ev(<<"a", "b">>, <<>>, <<2026, 3, 29>>, <<>>, <<>>, <<>>, Yorkshire),
    Ev(<<"A", " ", "b">>, <<2026, 3, 1>>, <<>>, <<>>, <<2026, 3, 15>>, <<>>, <<>>),
    Ev(<<"C", "d">>, <<>>, <<>>, <<2026, 2, 28>>, <<>>, <<2026, 3, 16>>,
       <<"k", "e", "n", "t">>),
    Ev(<<"E", "f">>, <<>>, <<>>, <<>>, <<>>, <<>>, Kent),
    Ev(<<"G", "h">>, <<>>, <<>>, <<>>, <<2026, 12, 31>>, <<>>, Devon),
    Ev(<<"I", "j">>, <<>>, <<>>, <<2026, 12, 31>>, <<>>, <<>>, Yorkshire),
    Ev(<<"K", "l">>, <<2027, 1, 1>>, <<2026, 3, 8>>, <<2026, 2, 7>>,
       <<2027, 1, 2>>, <<2026, 3, 8>>, Devon) }

RECURSIVE SeqsUpTo(_, _)
SeqsUpTo(S, n) ==
  IF n = 0 THEN {<<>>}
  ELSE LET shorter == SeqsUpTo(S, n - 1)
       IN  shorter \cup {Append(s, x) : s \in {t \in shorter : Len(t) = n - 1}, x \in S}

EventLists == SeqsUpTo(EventPool, MaxEvents)

\* ------------------------------------------------------- fetched documents
\* A JSON value: its type, its elements when it is an array, whether it is
\* truthy, and for an object whether it has an `events` member and which.
JArray(items) == [type |-> "array", items |-> items, truthy |-> TRUE]
JScalar(type, truthy) == [type |-> type, items |-> <<>>, truthy |-> truthy]
JUndefined == JScalar("undefined", FALSE)
JObject(hasEvents, member) ==
  [type |-> "object", items |-> <<>>, truthy |-> TRUE,
   hasEvents |-> hasEvents, events |-> member]

\* Documents of the two shapes the feed is meant to have: a bare array, and
\* an object with an `events` array (wrapping the lists of at most one record:
\* past fetchEvents the two shapes are the same list).
ExpectedDocs ==
  {JArray(l) : l \in EventLists}
  \cup {JObject(TRUE, JArray(l)) : l \in SeqsUpTo(EventPool, 1)}

\* Documents of every other JSON shape.
OtherDocs ==
  { JScalar("null", FALSE), JScalar("number", TRUE), JScalar("number", FALSE),
    JScalar("string", TRUE), JScalar("boolean", TRUE),
    JObject(FALSE, JUndefined),
    JObject(TRUE, JScalar("null", FALSE)),
    JObject(TRUE, JScalar("string", TRUE)),
    JObject(TRUE, JScalar("number", TRUE)),
    JObject(TRUE, JObject(FALSE, JUndefined)) }

\* What the single HTTP GET can come back with.
Responses ==
  {[status |-> "ok", doc |-> d] : d \in ExpectedDocs \cup OtherDocs}
  \cup {[status |-> s, doc |-> JUndefined] :
          s \in {"network_error", "http_error", "malformed_json"}}

\* The instants at which the build may run.
BuildTimes ==
  { UTCInstant(2026, 2, 9, 12, 0), UTCInstant(2026, 3, 15, 2, 0),
    UTCInstant(2026, 3, 15, 12, 0) }

\* ------------------------------------------------------------- fetchEvents
\* fetchEvents(): what it returns, or that it threw.  Every failure inside the
\* try block (a rejected fetch, a non-ok status, a body that is not JSON, a
\* TypeError raised by reading `.events` of null) is logged and thrown again.
\* A fetchEvents whose catch block logs the failure and carries on with no
\* events instead of throwing again.
fetchEventsSwallowingFailure(resp) ==
  IF resp.status # "ok" \/ resp.doc.type = "null"
  THEN [threw |-> FALSE, value |-> JArray(<<>>)]
  ELSE LET data == resp.doc
           member == IF data.type = "object" /\ data.hasEvents
                     THEN data.events ELSE JUndefined
       IN  [threw |-> FALSE,
            value |-> IF data.type = "array" THEN data
                      ELSE IF member.truthy THEN member ELSE JArray(<<>>)]

fetchEvents(resp) ==
  IF resp.status # "ok" THEN [threw |-> TRUE, value |-> JUndefined]
  ELSE LET data == resp.doc
       IN  IF data.type = "array" THEN [threw |-> FALSE, value |-> data]
           ELSE IF data.type = "null" THEN [threw |-> TRUE, value |-> JUndefined]
           ELSE LET member == IF data.type = "object" /\ data.hasEvents
                              THEN data.events ELSE JUndefined
                IN  [threw |-> FALSE,
                     value |-> IF member.truthy THEN member ELSE JArray(<<>>)]

\* ---------------------------------------------------- filterUpcomingEvents
filterUpcomingEvents(zone, clock, evs) ==
  LET today == setHours(zone, clock, 0, 0, 0)
      Keep(event) ==
        LET endDateStr == Or(event.endDate, Or(event.end_date,
                          Or(event.startDate, Or(event.start_date, event.date))))
        IN  IF endDateStr = <<>> THEN FALSE
            ELSE setHours(zone, ParseDateOnly(endDateStr), 23, 59, 59) >= today
  IN  SelectSeq(evs, Keep)

\* -------------------------------------------------------- sortEventsByDate
\* A comparator with its two results exchanged: ascending.
CompareDescendingExchanged(a, b) ==
  LET dateA == Or(a.startDate, Or(a.start_date, Or(a.date, <<>>)))
      dateB == Or(b.startDate, Or(b.start_date, Or(b.date, <<>>)))
  IN  IF StrLess(dateB, dateA) THEN 1
      ELSE IF StrLess(dateA, dateB) THEN -1
      ELSE 0

\* The comparator of sortEventsByDate: descending by start date string.
CompareDescending(a, b) ==
  LET dateA == Or(a.startDate, Or(a.start_date, Or(a.date, <<>>)))
      dateB == Or(b.startDate, Or(b.start_date, Or(b.date, <<>>)))
  IN  IF StrLess(dateB, dateA) THEN -1
      ELSE IF StrLess(dateA, dateB) THEN 1
      ELSE 0

sortEventsByDate(evs) ==
  SortBy([p \in Pairs(evs) |-> CompareDescending(p[1], p[2])], evs)

\* The comparator of the two ascending sorts (current month, month buckets).
CompareAscending(a, b) ==
  LET dateA == Or(a.startDate, Or(a.start_date, Or(a.date, <<>>)))
      dateB == Or(b.startDate, Or(b.start_date, Or(b.date, <<>>)))
  IN  IF StrLess(dateA, dateB) THEN -1
      ELSE IF StrLess(dateB, dateA) THEN 1
      ELSE 0

\* --------------------------------------------------------- extractCounties
\* countyMap.set(county, (countyMap.get(county) || 0) + 1) on a Map kept as
\* the sequence of its entries <<key, value>> in insertion order.
MapIncrement(entries, county) ==
  IF \E i \in 1..Len(entries) : entries[i][1] = county
  THEN [i \in 1..Len(entries) |->
          IF entries[i][1] = county THEN <<county, entries[i][2] + 1>>
          ELSE entries[i]]
  ELSE Append(entries, <<county, 1>>)

RECURSIVE CountCounties(_)
CountCounties(evs) ==
  IF evs = <<>> THEN <<>>
  ELSE MapIncrement(CountCounties(SubSeq(evs, 1, Len(evs) - 1)),
                    Or(evs[Len(evs)].county, NotSpecified))

\* A county comparator without the two "Not Specified" cases.
CompareCountiesAlphabetical(a, b) == localeCompare(a[1], b[1])

\* The comparator of the county sort: "Not Specified" last, else alphabetical.
CompareCounties(a, b) ==
  IF a[1] = NotSpecified THEN 1
  ELSE IF b[1] = NotSpecified THEN -1
  ELSE localeCompare(a[1], b[1])

extractCounties(evs) ==
  LET entries == CountCounties(evs)
  IN  SortBy([p \in Pairs(entries) |-> CompareCounties(p[1], p[2])], entries)

\* ------------------------------------------------ filterEventsByCurrentMonth
filterEventsByCurrentMonth(zone, clock, evs) ==
  LET currentYear  == getFullYear(zone, clock)
      currentMonth == getMonth(zone, clock)
      Keep(event) ==
        LET startDateStr == Or(event.startDate, Or(event.start_date, event.date))
        IN  IF startDateStr = <<>> THEN FALSE
            ELSE /\ getFullYear(zone, ParseDateOnly(startDateStr)) = currentYear
                 /\ getMonth(zone, ParseDateOnly(startDateStr)) = currentMonth
  IN  SortBy([p \in Pairs(evs) |-> CompareAscending(p[1], p[2])],
             SelectSeq(evs, Keep))

\* -------------------------------------------------------- groupEventsByMonth
\* A month key read from the aliases in the order date, start_date, startDate.
MonthKeyDateFirst(zone, event, year) ==
  LET startDateStr == Or(event.date, Or(event.start_date, event.startDate))
  IN  IF startDateStr = <<>> THEN -1
      ELSE IF getFullYear(zone, ParseDateOnly(startDateStr)) # year THEN -1
      ELSE getMonth(zone, ParseDateOnly(startDateStr))

\* The month key (0-11) under which groupEventsByMonth files an event, or -1
\* when it skips the event.
MonthKey(zone, event, year) ==
  LET startDateStr == Or(event.startDate, Or(event.start_date, event.date))
  IN  IF startDateStr = <<>> THEN -1
      ELSE IF getFullYear(zone, ParseDateOnly(startDateStr)) # year THEN -1
      ELSE getMonth(zone, ParseDateOnly(startDateStr))

\* A groupEventsByMonth that leaves each bucket in the order of its input, as
\* the revision before the within-month sort did.
groupEventsByMonthUnsorted(zone, evs, year) ==
  LET keys == {MonthKey(zone, evs[i], year) : i \in 1..Len(evs)} \ {-1}
      InMonth(m) == LET Is(event) == MonthKey(zone, event, year) = m
                    IN  SelectSeq(evs, Is)
  IN  [m \in keys |-> InMonth(m)]

\* The Map<number, Event[]> as a function from its keys to their arrays.
groupEventsByMonth(zone, evs, year) ==
  LET keys == {MonthKey(zone, evs[i], year) : i \in 1..Len(evs)} \ {-1}
      InMonth(m) == LET Is(event) == MonthKey(zone, event, year) = m
                    IN  SelectSeq(evs, Is)
  IN  [m \in keys |-> SortBy([p \in Pairs(evs) |-> CompareAscending(p[1], p[2])],
                             InMonth(m))]

\* ------------------------------------------------------------ date display
\* An ordinal suffix chosen by the last digit alone.
getOrdinalSuffixByLastDigit(day) ==
  CASE day % 10 = 1 -> "st"
    [] day % 10 = 2 -> "nd"
    [] day % 10 = 3 -> "rd"
    [] OTHER        -> "th"

getOrdinalSuffix(day) ==
  IF day > 3 /\ day < 21 THEN "th"
  ELSE CASE day % 10 = 1 -> "st"
         [] day % 10 = 2 -> "nd"
         [] day % 10 = 3 -> "rd"
         [] OTHER        -> "th"

\* The names toLocaleDateString('en-GB', ...) gives for { weekday: 'long' }
\* and { month: 'short' }.
WeekdayNames == <<"Sunday", "Monday", "Tuesday", "Wednesday", "Thursday",
                  "Friday", "Saturday">>
MonthShortNames == <<"Jan", "Feb", "Mar", "Apr", "May", "Jun", "Jul", "Aug",
                     "Sep", "Oct", "Nov", "Dec">>

\* Local day of the week of an instant, 0 = Sunday (1970-01-01 was a Thursday).
getDay(zone, t) == ((LocalTime(zone, t) \div 86400) + 4) % 7

toLocaleWeekday(zone, t) == WeekdayNames[getDay(zone, t) + 1]
toLocaleMonth(zone, t)   == MonthShortNames[getMonth(zone, t) + 1]

\* A formatted date is the tuple of the pieces its template literal joins.
\* `${dayOfWeek}, ${day}${getOrdinalSuffix(day)} ${month} ${year}`
formatSingleDate(zone, dateStr) ==
  LET date == ParseDateOnly(dateStr)
      day  == getDate(zone, date)
  IN  <<toLocaleWeekday(zone, date), ", ", ToString(day), getOrdinalSuffix(day),
        " ", toLocaleMonth(zone, date), " ", ToString(getFullYear(zone, date))>>

\* The branch of formatDate for an end date that differs from the start date.
formatDateRange(zone, startDate, endDate) ==
  LET start      == ParseDateOnly(startDate)
      end        == ParseDateOnly(endDate)
      startDay   == getDate(zone, start)
      endDay     == getDate(zone, end)
      startMonth == toLocaleMonth(zone, start)
      endMonth   == toLocaleMonth(zone, end)
      year       == getFullYear(zone, start)
  IN  IF startMonth = endMonth
      THEN <<ToString(startDay), getOrdinalSuffix(startDay), " - ",
             ToString(endDay), getOrdinalSuffix(endDay), " ", startMonth, " ",
             ToString(year)>>
      ELSE <<ToString(startDay), getOrdinalSuffix(startDay), " ", startMonth,
             " - ", ToString(endDay), getOrdinalSuffix(endDay), " ", endMonth,
             " ", ToString(year)>>

\* A formatDate that takes the range branch whenever an end date is present.
formatDateWheneverEndPresent(zone, event) ==
  LET startDate == Or(event.startDate, Or(event.start_date, event.date))
      endDate   == Or(event.endDate, event.end_date)
  IN  IF startDate = <<>> THEN <<"Date TBA">>
      ELSE IF endDate # <<>>
           THEN formatDateRange(zone, startDate, endDate)
           ELSE formatSingleDate(zone, startDate)

formatDate(zone, event) ==
  LET startDate == Or(event.startDate, Or(event.start_date, event.date))
      endDate   == Or(event.endDate, event.end_date)
  IN  IF startDate = <<>> THEN <<"Date TBA">>
      ELSE IF endDate # <<>> /\ endDate # startDate
           THEN formatDateRange(zone, startDate, endDate)
           ELSE formatSingleDate(zone, startDate)

\* ---------------------------------------------------------- calendar exports
\* formatICSDate: "YYYY-MM-DD" with the dashes removed, "YYYYMMDD".
formatICSDate(dateStr) == dateStr[1] * 10000 + dateStr[2] * 100 + dateStr[3]

\* The `dates` parameter of generateGoogleCalendarUrl, or the empty string.
generateGoogleCalendarUrl(zone, event) ==
  LET startDateStr == Or(event.startDate, Or(event.start_date, event.date))
      endDateStr   == Or(event.endDate, Or(event.end_date, startDateStr))
      parsed       == ParseDateOnly(endDateStr)
      endDateObj   == setDate(zone, parsed, getDate(zone, parsed) + 1)
  IN  IF startDateStr = <<>> THEN [empty |-> TRUE, start |-> 0, end |-> 0]
      ELSE [empty |-> FALSE,
            start |-> formatICSDate(startDateStr),
            end   |-> formatICSDate(toISODate(endDateObj))]

\* The `startdt` and `enddt` parameters of generateOutlookUrl, or the empty
\* string.
generateOutlookUrl(zone, event) ==
  LET startDateStr == Or(event.startDate, Or(event.start_date, event.date))
      endDateStr   == Or(event.endDate, Or(event.end_date, startDateStr))
      parsed       == ParseDateOnly(endDateStr)
      endDateObj   == setDate(zone, parsed, getDate(zone, parsed) + 1)
  IN  IF startDateStr = <<>>
      THEN [empty |-> TRUE, startdt |-> toISOString(0), enddt |-> toISOString(0)]
      ELSE [empty |-> FALSE,
            startdt |-> toISOString(ParseLocalMidnight(zone, startDateStr)),
            enddt   |-> toISOString(endDateObj)]

\* A VEVENT whose end date is read from end_date before endDate.
VEventEndDateLast(zone, event) ==
  LET startDateStr == Or(event.startDate, Or(event.start_date, event.date))
      endDateStr   == Or(event.end_date, Or(event.endDate, startDateStr))
      parsed       == ParseDateOnly(endDateStr)
      endDateObj   == setDate(zone, parsed, getDate(zone, parsed) + 1)
  IN  [summary |-> event.name,
       dtstart |-> formatICSDate(startDateStr),
       dtend   |-> formatICSDate(toISODate(endDateObj))]

\* The VEVENT that generateSingleEventICS, generateICS and generateAllEventsICS
\* write for an event that has a start date: all three compute DTSTART and
\* DTEND with the same statements.
VEvent(zone, event) ==
  LET startDateStr == Or(event.startDate, Or(event.start_date, event.date))
      endDateStr   == Or(event.endDate, Or(event.end_date, startDateStr))
      parsed       == ParseDateOnly(endDateStr)
      endDateObj   == setDate(zone, parsed, getDate(zone, parsed) + 1)
  IN  [summary |-> event.name,
       dtstart |-> formatICSDate(startDateStr),
       dtend   |-> formatICSDate(toISODate(endDateObj))]

\* The UIDs are modelled up to the "@": the domain after it is one literal in
\* all three exports.  `${startDate}` is the compact start date.
\* generateSingleEventICS: the VEVENTs of the file, none for the empty string.
generateSingleEventICS(zone, event) ==
  LET startDateStr == Or(event.startDate, Or(event.start_date, event.date))
      uid == <<"event-">> \o slugify(event.name)
             \o <<"-", ToString(formatICSDate(startDateStr))>>
  IN  IF startDateStr = <<>> THEN <<>>
      ELSE <<[uid |-> uid] @@ VEvent(zone, event)>>

\* An all-events feed whose UIDs are made the way generateICS makes them.
generateAllEventsICSUidByIndex(zone, evs) ==
  LET StartOf(i)  == Or(evs[i].startDate, Or(evs[i].start_date, evs[i].date))
      HasStart(i) == StartOf(i) # <<>>
      kept        == SelectSeq([i \in 1..Len(evs) |-> i], HasStart)
  IN  [k \in 1..Len(kept) |->
         [uid |-> <<"event-", ToString(kept[k] - 1), "-",
                    ToString(formatICSDate(StartOf(kept[k])))>>]
         @@ VEvent(zone, evs[kept[k]])]

\* generateICS (the calendar of a county): one VEVENT per event with a start
\* date, its UID made of the event's index in the list given.
generateICS(zone, evs) ==
  LET StartOf(i)  == Or(evs[i].startDate, Or(evs[i].start_date, evs[i].date))
      HasStart(i) == StartOf(i) # <<>>
      kept        == SelectSeq([i \in 1..Len(evs) |-> i], HasStart)
  IN  [k \in 1..Len(kept) |->
         [uid |-> <<"event-", ToString(kept[k] - 1), "-",
                    ToString(formatICSDate(StartOf(kept[k])))>>]
         @@ VEvent(zone, evs[kept[k]])]

\* generateAllEventsICS (the subscription feed): one VEVENT per event with a
\* start date, its UID made of the event's slug.
generateAllEventsICS(zone, evs) ==
  LET StartOf(i)  == Or(evs[i].startDate, Or(evs[i].start_date, evs[i].date))
      HasStart(i) == StartOf(i) # <<>>
      kept        == SelectSeq([i \in 1..Len(evs) |-> i], HasStart)
  IN  [k \in 1..Len(kept) |->
         [uid |-> slugify(evs[kept[k]].name)
                  \o <<"-", ToString(formatICSDate(StartOf(kept[k])))>>]
         @@ VEvent(zone, evs[kept[k]])]

\* The date statements every export shares,
\*   formatICSDate(startDateStr), new Date(endDateStr) ... .toISOString(),
\* raise a TypeError on an absent date string and a RangeError on the date
\* made of one.  An export without the early return for an event that has no
\* start date raises the TypeError for it.
ExportThrowsWithoutEarlyReturn(event) ==
  Or(event.startDate, Or(event.start_date, event.date)) = <<>>

\* Whether an export raises an error for an event: it returns the empty
\* string before these statements when there is no start date, and the end
\* date string falls back to the start date.  (Every other field an export or
\* a page reads is either `name` or read through `||` or a conditional.)
ExportThrows(event) ==
  LET startDateStr == Or(event.startDate, Or(event.start_date, event.date))
      endDateStr   == Or(event.endDate, Or(event.end_date, startDateStr))
  IN  IF startDateStr = <<>> THEN FALSE ELSE endDateStr = <<>>

AnyExportThrows(evs) == \E i \in 1..Len(evs) : ExportThrows(evs[i])

\* The events a forEach handles before one of them raises an error.
BeforeFirstThrow(evs) ==
  LET bad == {i \in 1..Len(evs) : ExportThrows(evs[i])}
  IN  IF bad = {} THEN evs
      ELSE SubSeq(evs, 1, (CHOOSE i \in bad : \A j \in bad : i <= j) - 1)

\* ------------------------------------------------------------- output paths
DigitSeq == <<"0", "1", "2", "3", "4", "5", "6", "7", "8", "9">>
TwoDigits(n) == <<DigitSeq[((n \div 10) % 10) + 1], DigitSeq[(n % 10) + 1]>>

\* The characters of a date string, as a template literal interpolates it.
DateText(dateStr) ==
  IF dateStr = <<>> THEN <<"u", "n", "d", "e", "f", "i", "n", "e", "d">>
  ELSE TwoDigits(dateStr[1] \div 100) \o TwoDigits(dateStr[1]) \o <<"-">>
       \o TwoDigits(dateStr[2]) \o <<"-">> \o TwoDigits(dateStr[3])

DotIcs      == <<".", "i", "c", "s">>
IcsDir      == <<"i", "c", "s", "/">>
EventsDir   == <<"e", "v", "e", "n", "t", "s", "/">>
IndexHtml   == <<"i", "n", "d", "e", "x", ".", "h", "t", "m", "l">>
CalendarIcs == <<"c", "a", "l", "e", "n", "d", "a", "r", ".", "i", "c", "s">>
ShopsPage    == <<"s", "h", "o", "p", "s", "/">> \o IndexHtml
LayoutsPage  == <<"l", "a", "y", "o", "u", "t", "s", "/">> \o IndexHtml
MapPage      == <<"m", "a", "p", "/">> \o IndexHtml
CalendarPage == <<"c", "a", "l", "e", "n", "d", "a", "r", "/">> \o IndexHtml

\* `${eventSlug}-${startDate}.ics` under ics/.
EventIcsPath(event) ==
  IcsDir \o slugify(event.name) \o <<"-">>
  \o DateText(Or(event.startDate, Or(event.start_date, event.date))) \o DotIcs

CountyPagePath(county) == EventsDir \o slugify(county) \o <<"/">> \o IndexHtml
CountyIcsPath(county)  == EventsDir \o slugify(county) \o DotIcs

\* The content of a calendar file (its VEVENTs) and of an HTML page (the parts
\* modelled; none for the pages that show no event data).
IcsContent(vevents) == [vevents |-> vevents, page |-> <<>>]
PageContent(page)   == [vevents |-> <<>>, page |-> page]

\* fs.writeFileSync(path, content) on the set of files written so far.
writeFileSync(fileSet, path, content) ==
  {f \in fileSet : f.path # path} \cup {[path |-> path, content |-> content]}

\* -------------------------------------------------------------- generateHTML
\* An event card of the events page: its date line and the links of its
\* calendar dropdown.
EventCard(zone, event) ==
  [event   |-> event,
   date    |-> formatDate(zone, event),
   icsPath |-> EventIcsPath(event),
   google  |-> generateGoogleCalendarUrl(zone, event),
   outlook |-> generateOutlookUrl(zone, event)]

EventCards(zone, evs) == [i \in 1..Len(evs) |-> EventCard(zone, evs[i])]

RECURSIVE SumCounts(_)
SumCounts(entries) ==
  IF entries = <<>> THEN 0 ELSE Head(entries)[2] + SumCounts(Tail(entries))

MonthIndexes == [i \in 1..12 |-> i - 1]

\* The parts of the page generateHTML renders from its arguments.
generateHTML(zone, clock, evs, cMap, thisMonth, monthly) ==
  LET currentMonth == getMonth(zone, clock)
      Shown(m)     == m \in DOMAIN monthly /\ m # currentMonth
      shownMonths  == SelectSeq(MonthIndexes, Shown)
  IN  [listed      |-> Len(evs),
       allCounties |-> SumCounts(cMap),
       countyLinks |-> [i \in 1..Len(cMap) |->
                          [county |-> cMap[i][1], count |-> cMap[i][2],
                           slug |-> slugify(cMap[i][1])]],
       thisMonth   |-> EventCards(zone, thisMonth),
       months      |-> [i \in 1..Len(shownMonths) |->
                          [month |-> shownMonths[i],
                           cards |-> EventCards(zone, monthly[shownMonths[i]])]]]

\* Whether generateHTML raises an error: its cards call the exports.
generateHTMLThrows(zone, clock, thisMonth, monthly) ==
  \/ AnyExportThrows(thisMonth)
  \/ \E m \in DOMAIN monthly :
       m # getMonth(zone, clock) /\ AnyExportThrows(monthly[m])

\* ------------------------------------------------------------ generateMapPage
\* The records of the map page's eventsJSON: what a marker's popup shows.
generateMapPage(zone, evs) ==
  [i \in 1..Len(evs) |->
     [name |-> evs[i].name, date |-> formatDate(zone, evs[i]),
      county |-> evs[i].county]]

\* ------------------------------------------------------- generateCalendarPage
\* A setDate that sets the day of the month it has just read.
AdvanceToSameDay(zone, currentDate) ==
  setDate(zone, currentDate, getDate(zone, currentDate))

\* currentDate.setDate(currentDate.getDate() + 1)
AdvanceCurrentDate(zone, currentDate) ==
  setDate(zone, currentDate, getDate(zone, currentDate) + 1)

\* The date keys the loop `while (currentDate <= endDate)` produces, in order.
RECURSIVE DateKeys(_, _, _)
DateKeys(zone, currentDate, endDate) ==
  IF currentDate <= endDate
  THEN <<toISODate(currentDate)>>
       \o DateKeys(zone, AdvanceCurrentDate(zone, currentDate), endDate)
  ELSE <<>>

\* The date keys under which the forEach callback files one event.
expandDateSpan(zone, event) ==
  LET startDateStr == Or(event.startDate, Or(event.start_date, event.date))
      endDateStr   == Or(event.endDate, Or(event.end_date, startDateStr))
  IN  IF startDateStr = <<>> THEN <<>>
      ELSE DateKeys(zone, ParseDateOnly(startDateStr), ParseDateOnly(endDateStr))

\* eventsByDate.get(dateKey).push(event), after eventsByDate.set(dateKey, [])
\* for a new key, on a Map kept as the sequence of its entries.
MapPush(entries, dateKey, event) ==
  IF \E i \in 1..Len(entries) : entries[i][1] = dateKey
  THEN [i \in 1..Len(entries) |->
          IF entries[i][1] = dateKey
          THEN <<dateKey, Append(entries[i][2], event)>>
          ELSE entries[i]]
  ELSE Append(entries, <<dateKey, <<event>>>>)

RECURSIVE MapPushAll(_, _, _)
MapPushAll(entries, dateKeys, event) ==
  IF dateKeys = <<>> THEN entries
  ELSE MapPushAll(MapPush(entries, Head(dateKeys), event), Tail(dateKeys), event)

\* eventsByDate after events.forEach.
RECURSIVE GroupEventsByDate(_, _)
GroupEventsByDate(zone, evs) ==
  IF evs = <<>> THEN <<>>
  ELSE MapPushAll(GroupEventsByDate(zone, SubSeq(evs, 1, Len(evs) - 1)),
                  expandDateSpan(zone, evs[Len(evs)]), evs[Len(evs)])

\* An event of eventsJSON: what a day cell and its modal show of it (the name,
\* the county, the link to the event's ICS file).
CalendarEvent(event) ==
  [name |-> event.name, county |-> event.county,
   icsPath |-> <<".", ".", "/">> \o EventIcsPath(event)]

\* The data the page carries to its script: the year and month of the build
\* and eventsJSON, one item per date key.
generateCalendarPage(zone, clock, evs) ==
  LET eventsByDate == GroupEventsByDate(zone, evs)
  IN  [year  |-> getFullYear(zone, clock),
       month |-> getMonth(zone, clock),
       eventsData |-> [i \in 1..Len(eventsByDate) |->
                         [date   |-> eventsByDate[i][1],
                          events |-> [k \in 1..Len(eventsByDate[i][2]) |->
                                        CalendarEvent(eventsByDate[i][2][k])]]]]

\* Whether generateCalendarPage raises an error: the items of eventsJSON call
\* the exports for every event filed under a date key.
generateCalendarPageThrows(zone, evs) ==
  \E i \in 1..Len(evs) :
    expandDateSpan(zone, evs[i]) # <<>> /\ ExportThrows(evs[i])

\* new Date(year, month + 1, 0).getDate(): the number of days of the month.
DaysInMonth(year, month) ==
  IF month = 11 THEN 31
  ELSE DaysFromCivil(year, month + 2, 1) - DaysFromCivil(year, month + 1, 1)

\* eventsByDate.get(dateStr) || [] in the page's script.
EventsOn(eventsData, dateStr) ==
  IF \E i \in 1..Len(eventsData) : eventsData[i].date = dateStr
  THEN eventsData[CHOOSE i \in 1..Len(eventsData) : eventsData[i].date = dateStr].events
  ELSE <<>>

\* The dots of a day cell: at most three events.
MaxVisible == 3

\* generateCalendar() of the page's script: the day cells of the month, each
\* with its event dots, its "+n more" count and the events its modal lists.
generateCalendar(page) ==
  [day \in 1..DaysInMonth(page.year, page.month) |->
     LET cellEvents == EventsOn(page.eventsData, <<page.year, page.month + 1, day>>)
     IN  [events |-> cellEvents,
          dots   |-> SubSeq(cellEvents, 1,
                            IF Len(cellEvents) < MaxVisible THEN Len(cellEvents)
                            ELSE MaxVisible),
          more   |-> IF Len(cellEvents) > MaxVisible
                     THEN Len(cellEvents) - MaxVisible ELSE 0]]

\* ------------------------------------------------------------------ build()
TargetYear == 2026

VARIABLES
  zone,             \* the host's time zone
  clock,            \* the instant `new Date()` returns during the build
  response,         \* what the HTTP GET of EVENTS_URL comes back with
  pc,               \* the statement of build() to run next
  fetchCount,       \* number of calls of fetch()
  events,           \* the value fetchEvents returned
  upcomingEvents,   \* the array filterUpcomingEvents returned
  sortedEvents,     \* the array sortEventsByDate returned
  countyMap,        \* entries of the Map extractCounties returned
  thisMonthEvents,  \* the array filterEventsByCurrentMonth returned
  monthlyEvents,    \* the Map groupEventsByMonth returned
  files,            \* the files written under dist/
  exitCode,         \* the exit status of the process, -1 while it runs
  call,             \* the operation applied on its own, "none" before any
  given,            \* the argument it was applied to
  returned,         \* the value it returned
  currentDate,      \* the date-span loop's currentDate
  endDate,          \* the date-span loop's endDate
  dateKeys,         \* the date keys the date-span loop has produced so far
  openPage,         \* the page of the site open in a browser, "none" if none
  dropdowns,        \* per calendar dropdown of a page: whether it has class active
  mapEvents,        \* map page: the `events` constant of its script
  mapPc,            \* map page: the statement of addEventMarkers to run next
  mapIndex,         \* map page: position of the for-of loop in `events`
  markers,          \* map page: the markers added to the map
  geocodedCount,    \* map page: the script's geocodedCount
  loading,          \* map page: the loading overlay, "shown" or "hidden"
  outstanding,      \* map page: geocoding requests sent and not yet settled
  cards,            \* single-page filter: the event cards (county, hidden)
  buttons,          \* single-page filter: the filter buttons (county, count, active)
  visibleCount      \* single-page filter: the text of #visible-count

vars == <<zone, clock, response, pc, fetchCount, events, upcomingEvents,
          sortedEvents, countyMap, thisMonthEvents, monthlyEvents, files,
          exitCode, call, given, returned, currentDate, endDate, dateKeys,
          openPage, dropdowns, mapEvents, mapPc, mapIndex, markers, geocodedCount,
          loading, outstanding, cards, buttons, visibleCount>>

env   == <<zone, clock, response>>
views == <<upcomingEvents, sortedEvents, countyMap, thisMonthEvents, monthlyEvents>>
unit  == <<call, given, returned, currentDate, endDate, dateKeys>>
browser == <<openPage, dropdowns, mapEvents, mapPc, mapIndex, markers, geocodedCount,
             loading, outstanding, cards, buttons, visibleCount>>

\* No operation has been applied on its own.
NoCall ==
  /\ call = "none"
  /\ given = <<>>
  /\ returned = <<>>
  /\ currentDate = 0
  /\ endDate = 0
  /\ dateKeys = <<>>

\* No page of the site is open in a browser.
NoPage ==
  /\ openPage = "none"
  /\ dropdowns = <<>>
  /\ mapEvents = <<>>
  /\ mapPc = "closed"
  /\ mapIndex = 0
  /\ markers = <<>>
  /\ geocodedCount = 0
  /\ loading = "shown"
  /\ outstanding = 0
  /\ cards = <<>>
  /\ buttons = <<>>
  /\ visibleCount = 0

Init ==
  /\ zone \in HostZones
  /\ clock \in BuildTimes
  /\ response \in Responses
  /\ pc = "start"
  /\ fetchCount = 0
  /\ events = JUndefined
  /\ upcomingEvents = <<>>
  /\ sortedEvents = <<>>
  /\ countyMap = <<>>
  /\ thisMonthEvents = <<>>
  /\ monthlyEvents = <<>>
  /\ files = {}
  /\ exitCode = -1
  /\ NoCall
  /\ NoPage

\* Create the dist directory.
MakeDistDir ==
  /\ pc = "start"
  /\ pc' = "fetch"
  /\ UNCHANGED <<env, unit, browser, fetchCount, events, views, files, exitCode>>

\* const events = await fetchEvents();   -- it returns
FetchReturns ==
  /\ pc = "fetch"
  /\ ~fetchEvents(response).threw
  /\ fetchCount' = fetchCount + 1
  /\ events' = fetchEvents(response).value
  /\ pc' = "filter"
  /\ UNCHANGED <<env, unit, browser, views, files, exitCode>>

\* const events = await fetchEvents();   -- it throws, build() rejects
FetchThrows ==
  /\ pc = "fetch"
  /\ fetchEvents(response).threw
  /\ fetchCount' = fetchCount + 1
  /\ pc' = "failed"
  /\ UNCHANGED <<env, unit, browser, events, views, files, exitCode>>

\* const upcomingEvents = filterUpcomingEvents(events);
FilterUpcoming ==
  /\ pc = "filter"
  /\ events.type = "array"
  /\ upcomingEvents' = filterUpcomingEvents(zone, clock, events.items)
  /\ pc' = "sort"
  /\ UNCHANGED <<env, unit, browser, fetchCount, events, sortedEvents, countyMap,
                 thisMonthEvents, monthlyEvents, files, exitCode>>

\* The same statement when fetchEvents returned a value that is not an array:
\* `events.filter is not a function`, build() rejects.
FilterThrows ==
  /\ pc = "filter"
  /\ events.type # "array"
  /\ pc' = "failed"
  /\ UNCHANGED <<env, unit, browser, fetchCount, events, views, files, exitCode>>

\* const sortedEvents = sortEventsByDate(upcomingEvents);
\* Array.prototype.sort sorts in place and returns the same array.
SortEvents ==
  /\ pc = "sort"
  /\ sortedEvents' = sortEventsByDate(upcomingEvents)
  /\ upcomingEvents' = sortEventsByDate(upcomingEvents)
  /\ pc' = "counties"
  /\ UNCHANGED <<env, unit, browser, fetchCount, events, countyMap, thisMonthEvents,
                 monthlyEvents, files, exitCode>>

\* const countyMap = extractCounties(sortedEvents);
ExtractCounties ==
  /\ pc = "counties"
  /\ countyMap' = extractCounties(sortedEvents)
  /\ pc' = "thisMonth"
  /\ UNCHANGED <<env, unit, browser, fetchCount, events, upcomingEvents, sortedEvents,
                 thisMonthEvents, monthlyEvents, files, exitCode>>

\* const thisMonthEvents = filterEventsByCurrentMonth(sortedEvents);
FilterCurrentMonth ==
  /\ pc = "thisMonth"
  /\ thisMonthEvents' = filterEventsByCurrentMonth(zone, clock, sortedEvents)
  /\ pc' = "monthly"
  /\ UNCHANGED <<env, unit, browser, fetchCount, events, upcomingEvents, sortedEvents,
                 countyMap, monthlyEvents, files, exitCode>>

\* const monthlyEvents = groupEventsByMonth(sortedEvents, 2026);
GroupByMonth ==
  /\ pc = "monthly"
  /\ monthlyEvents' = groupEventsByMonth(zone, sortedEvents, TargetYear)
  /\ pc' = "eventIcs"
  /\ UNCHANGED <<env, unit, browser, fetchCount, events, upcomingEvents, sortedEvents,
                 countyMap, thisMonthEvents, files, exitCode>>

\* sortedEvents.forEach: one ICS file per event whose ICS content is not empty.
RECURSIVE WriteEventFiles(_, _, _)
WriteEventFiles(fileSet, z, evs) ==
  IF evs = <<>> THEN fileSet
  ELSE LET icsContent == generateSingleEventICS(z, Head(evs))
           written    == IF icsContent # <<>>
                         THEN writeFileSync(fileSet, EventIcsPath(Head(evs)),
                                            IcsContent(icsContent))
                         ELSE fileSet
       IN  WriteEventFiles(written, z, Tail(evs))

WriteEventIcs ==
  /\ pc = "eventIcs"
  /\ files' = WriteEventFiles(files, zone, BeforeFirstThrow(sortedEvents))
  /\ pc' = IF AnyExportThrows(sortedEvents) THEN "failed" ELSE "feed"
  /\ UNCHANGED <<env, unit, browser, fetchCount, events, views, exitCode>>

\* The all-events subscription feed, events/calendar.ics.
WriteFeed ==
  /\ pc = "feed"
  /\ IF AnyExportThrows(sortedEvents)
     THEN pc' = "failed" /\ UNCHANGED files
     ELSE /\ files' = writeFileSync(files, EventsDir \o CalendarIcs,
                                    IcsContent(generateAllEventsICS(zone, sortedEvents)))
          /\ pc' = "index"
  /\ UNCHANGED <<env, unit, browser, fetchCount, events, views, exitCode>>

\* The events page, index.html.
WriteIndex ==
  /\ pc = "index"
  /\ IF generateHTMLThrows(zone, clock, thisMonthEvents, monthlyEvents)
     THEN pc' = "failed" /\ UNCHANGED files
     ELSE /\ files' = writeFileSync(files, IndexHtml,
                   PageContent(<<generateHTML(zone, clock, sortedEvents,
                                   countyMap, thisMonthEvents, monthlyEvents)>>))
          /\ pc' = "countyPages"
  /\ UNCHANGED <<env, unit, browser, fetchCount, events, views, exitCode>>

\* Whether the page or the ICS file of a county raises an error.
CountyThrows(z, t, evs, county) ==
  LET InCounty(event) == Or(event.county, NotSpecified) = county
      countyEvents == SelectSeq(evs, InCounty)
  IN  \/ generateHTMLThrows(z, t, filterEventsByCurrentMonth(z, t, countyEvents),
                            groupEventsByMonth(z, countyEvents, TargetYear))
      \/ AnyExportThrows(countyEvents)

\* for (const [county, _count] of countyMap.entries()): the page and the ICS
\* file of every county but "Not Specified", up to the first error.
RECURSIVE WriteCountyFiles(_, _, _, _, _, _)
WriteCountyFiles(fileSet, z, t, evs, cMap, i) ==
  IF i > Len(cMap) THEN fileSet
  ELSE LET county == cMap[i][1]
           InCounty(event) == Or(event.county, NotSpecified) = county
           countyEvents == SelectSeq(evs, InCounty)
           page == generateHTML(z, t, countyEvents, cMap,
                                filterEventsByCurrentMonth(z, t, countyEvents),
                                groupEventsByMonth(z, countyEvents, TargetYear))
           withPage == writeFileSync(fileSet, CountyPagePath(county),
                                     PageContent(<<page>>))
           withIcs  == writeFileSync(withPage, CountyIcsPath(county),
                                     IcsContent(generateICS(z, countyEvents)))
       IN  IF county = NotSpecified
           THEN WriteCountyFiles(fileSet, z, t, evs, cMap, i + 1)
           ELSE IF generateHTMLThrows(z, t,
                     filterEventsByCurrentMonth(z, t, countyEvents),
                     groupEventsByMonth(z, countyEvents, TargetYear))
           THEN fileSet
           ELSE IF AnyExportThrows(countyEvents) THEN withPage
           ELSE WriteCountyFiles(withIcs, z, t, evs, cMap, i + 1)

WriteCountyPages ==
  /\ pc = "countyPages"
  /\ files' = WriteCountyFiles(files, zone, clock, sortedEvents, countyMap, 1)
  /\ pc' = IF \E i \in 1..Len(countyMap) :
               /\ countyMap[i][1] # NotSpecified
               /\ CountyThrows(zone, clock, sortedEvents, countyMap[i][1])
            THEN "failed" ELSE "staticPages"
  /\ UNCHANGED <<env, unit, browser, fetchCount, events, views, exitCode>>

\* The shops, layouts, map and calendar pages; build() returns and the
\* process ends with status 0.
WriteStaticPages ==
  /\ pc = "staticPages"
  /\ LET upToMap == writeFileSync(writeFileSync(writeFileSync(files,
                      ShopsPage, PageContent(<<>>)),
                      LayoutsPage, PageContent(<<>>)),
                      MapPage,
                      PageContent(<<generateMapPage(zone, thisMonthEvents)>>))
     IN  IF generateCalendarPageThrows(zone, thisMonthEvents)
         THEN /\ files' = upToMap
              /\ pc' = "failed"
              /\ UNCHANGED exitCode
         ELSE /\ files' = writeFileSync(upToMap, CalendarPage,
                             PageContent(<<generateCalendarPage(zone, clock,
                                                               thisMonthEvents)>>))
              /\ pc' = "done"
              /\ exitCode' = 0
  /\ UNCHANGED <<env, unit, browser, fetchCount, events, views>>

\* build().catch(error => { ...; process.exit(1); })
ExitOnFailure ==
  /\ pc = "failed"
  /\ pc' = "exited"
  /\ exitCode' = 1
  /\ UNCHANGED <<env, unit, browser, fetchCount, events, views, files>>

Next ==
  \/ MakeDistDir
  \/ FetchReturns
  \/ FetchThrows
  \/ FilterUpcoming
  \/ FilterThrows
  \/ SortEvents
  \/ ExtractCounties
  \/ FilterCurrentMonth
  \/ GroupByMonth
  \/ WriteEventIcs
  \/ WriteFeed
  \/ WriteIndex
  \/ WriteCountyPages
  \/ WriteStaticPages
  \/ ExitOnFailure

Spec == Init /\ [][Next]_vars

\* The same build run in the December before the year of the month buckets:
\* `new Date()` is an input of the build, and the literal 2026 is not.
EarlierBuildTimes == { UTCInstant(2025, 12, 15, 12, 0) }

InitEarlier ==
  /\ zone \in HostZones
  /\ clock \in EarlierBuildTimes
  /\ response \in Responses
  /\ pc = "start"
  /\ fetchCount = 0
  /\ events = JUndefined
  /\ upcomingEvents = <<>>
  /\ sortedEvents = <<>>
  /\ countyMap = <<>>
  /\ thisMonthEvents = <<>>
  /\ monthlyEvents = <<>>
  /\ files = {}
  /\ exitCode = -1
  /\ NoCall
  /\ NoPage

SpecEarlier == InitEarlier /\ [][Next]_vars

\* ===================================================================
\* The date operations applied on their own
\* ===================================================================
\* Records beyond those of EventPool: an end date equal to the start date, an
\* end date before the start date, a span over the new year that starts and
\* ends in January, and spans over the nights the clocks go forward and back.
DateRecords ==
  EventPool \cup
  { Ev(<<"M", "n">>, <<>>, <<>>, <<2026, 6, 13>>, <<2026, 6, 13>>, <<>>, Kent),
    Ev(<<"O", "p">>, <<2026, 2, 9>>, <<>>, <<>>, <<2026, 2, 7>>, <<>>, Devon),
    Ev(<<"Q", "r">>, <<2026, 1, 31>>, <<>>, <<>>, <<2027, 1, 1>>, <<>>, <<>>),
    Ev(<<"S", "t">>, <<>>, <<>>, <<2026, 3, 28>>, <<>>, <<2026, 3, 30>>, Kent),
    Ev(<<"U", "v">>, <<>>, <<2026, 10, 24>>, <<>>, <<2026, 10, 26>>, <<>>, Devon) }

\* The days of the month getDate() can return.
DaysOfMonth == 1..31

\* The build itself is not running.
NotBuilding ==
  /\ response = [status |-> "network_error", doc |-> JUndefined]
  /\ pc = "start"
  /\ fetchCount = 0
  /\ events = JUndefined
  /\ upcomingEvents = <<>>
  /\ sortedEvents = <<>>
  /\ countyMap = <<>>
  /\ thisMonthEvents = <<>>
  /\ monthlyEvents = <<>>
  /\ files = {}
  /\ exitCode = -1

build == <<response, pc, fetchCount, events, views, files, exitCode>>

DateInit ==
  /\ zone \in HostZones
  /\ clock \in BuildTimes
  /\ NotBuilding
  /\ NoCall
  /\ NoPage

\* getOrdinalSuffix(day)
CallGetOrdinalSuffix ==
  /\ call = "none"
  /\ \E day \in DaysOfMonth :
       /\ given' = day
       /\ returned' = getOrdinalSuffix(day)
  /\ call' = "getOrdinalSuffix"
  /\ UNCHANGED <<zone, clock, build, browser, currentDate, endDate, dateKeys>>

\* formatDate(event)
CallFormatDate ==
  /\ call = "none"
  /\ \E event \in DateRecords :
       /\ given' = event
       /\ returned' = formatDate(zone, event)
  /\ call' = "formatDate"
  /\ UNCHANGED <<zone, clock, build, browser, currentDate, endDate, dateKeys>>

Names(evs) == [i \in 1..Len(evs) |-> evs[i].name]

\* What every operation that reads a record's dates makes of an event: the
\* filters and sorts applied to the event and one other, the display text, the
\* bounds of the date-span loop, and the calendar exports.
EveryOperation(z, t, event, other) ==
  LET both    == <<event, other>>
      monthly == groupEventsByMonth(z, both, TargetYear)
      startDateStr == Or(event.startDate, Or(event.start_date, event.date))
      endDateStr   == Or(event.endDate, Or(event.end_date, startDateStr))
  IN  [upcoming  |-> Names(filterUpcomingEvents(z, t, both)),
       sorted    |-> Names(sortEventsByDate(both)),
       thisMonth |-> Names(filterEventsByCurrentMonth(z, t, both)),
       months    |-> [m \in DOMAIN monthly |-> Names(monthly[m])],
       display   |-> formatDate(z, event),
       span      |-> IF startDateStr = <<>> THEN <<>>
                     ELSE <<ParseDateOnly(startDateStr), ParseDateOnly(endDateStr)>>,
       google    |-> generateGoogleCalendarUrl(z, event),
       outlook   |-> generateOutlookUrl(z, event),
       single    |-> generateSingleEventICS(z, event),
       feed      |-> generateAllEventsICS(z, both),
       icsPath   |-> EventIcsPath(event)]

\* Every one of them applied to the same records.
CallEveryOperation ==
  /\ call = "none"
  /\ \E event \in DateRecords, other \in EventPool :
       /\ given' = <<event, other>>
       /\ returned' = EveryOperation(zone, clock, event, other)
  /\ call' = "everyOperation"
  /\ UNCHANGED <<zone, clock, build, browser, currentDate, endDate, dateKeys>>

\* The forEach callback of generateCalendarPage up to the while loop; it
\* returns at once for an event without a start date.
EnterDateSpan ==
  /\ call = "none"
  /\ \E event \in DateRecords :
       LET startDateStr == Or(event.startDate, Or(event.start_date, event.date))
           endDateStr   == Or(event.endDate, Or(event.end_date, startDateStr))
       IN  /\ given' = event
           /\ IF startDateStr = <<>>
              THEN /\ call' = "dateSpanDone"
                   /\ UNCHANGED <<currentDate, endDate>>
              ELSE /\ call' = "dateSpan"
                   /\ currentDate' = ParseDateOnly(startDateStr)
                   /\ endDate' = ParseDateOnly(endDateStr)
  /\ UNCHANGED <<zone, clock, build, browser, returned, dateKeys>>

\* One iteration of `while (currentDate <= endDate)`.
StepDateSpan ==
  /\ call = "dateSpan"
  /\ currentDate <= endDate
  /\ dateKeys' = Append(dateKeys, toISODate(currentDate))
  /\ currentDate' = AdvanceCurrentDate(zone, currentDate)
  /\ UNCHANGED <<zone, clock, build, browser, call, given, returned, endDate>>

\* The loop condition is false: the callback returns.
LeaveDateSpan ==
  /\ call = "dateSpan"
  /\ ~(currentDate <= endDate)
  /\ call' = "dateSpanDone"
  /\ UNCHANGED <<zone, clock, build, browser, given, returned, currentDate, endDate,
                 dateKeys>>

DateNext ==
  \/ CallGetOrdinalSuffix
  \/ CallFormatDate
  \/ CallEveryOperation
  \/ EnterDateSpan
  \/ StepDateSpan
  \/ LeaveDateSpan

DateSpec == DateInit /\ [][DateNext]_vars

\* ===================================================================
\* The "Add to Calendar" dropdowns of the events page and the calendar page
\* ===================================================================
MaxDropdowns == 4

\* toggleCalendarDropdown without the statement that closes all dropdowns.
toggleCalendarDropdownOnly(dropdown, button) ==
  LET isActive == dropdown[button]
  IN  [d \in DOMAIN dropdown |->
         IF d = button /\ ~isActive THEN TRUE ELSE dropdown[d]]

\* toggleCalendarDropdown(event, button) on the classes of the dropdowns:
\* every dropdown loses `active`, the button's own gets it unless it had it.
toggleCalendarDropdown(dropdown, button) ==
  LET isActive == dropdown[button]
  IN  [d \in DOMAIN dropdown |-> d = button /\ ~isActive]

\* (The pages read neither the build host's zone nor its clock.)
\* A page is loaded: an events page with its cards, each with a closed
\* dropdown, or the calendar page, whose modal is empty.
DropInit ==
  /\ zone = "UTC"
  /\ clock = UTCInstant(2026, 2, 9, 12, 0)
  /\ NotBuilding
  /\ NoCall
  /\ \/ openPage = "events" /\ \E n \in 1..MaxDropdowns :
                               dropdowns = [d \in 1..n |-> FALSE]
     \/ openPage = "calendar" /\ dropdowns = <<>>
  /\ mapEvents = <<>>
  /\ mapPc = "closed"
  /\ mapIndex = 0
  /\ markers = <<>>
  /\ geocodedCount = 0
  /\ loading = "shown"
  /\ outstanding = 0
  /\ cards = <<>>
  /\ buttons = <<>>
  /\ visibleCount = 0

\* A click on an "Add to Calendar" button: its onclick handler runs and stops
\* the propagation, so the document's click listener does not.
ClickAddToCalendar ==
  /\ \E button \in DOMAIN dropdowns :
       /\ call' = "toggleCalendarDropdown"
       /\ given' = [button |-> button, isActive |-> dropdowns[button]]
       /\ dropdowns' = toggleCalendarDropdown(dropdowns, button)
  /\ UNCHANGED <<zone, clock, build, returned, currentDate, endDate, dateKeys,
                 openPage, mapEvents, mapPc, mapIndex, markers, geocodedCount,
                 loading, outstanding, cards, buttons, visibleCount>>

\* A click anywhere else reaches the document's listener, which closes every
\* dropdown unless the target is inside an .add-to-calendar element (an entry
\* of dropdown `inside`; 0 for a target outside all of them).
ClickElsewhere ==
  /\ \E inside \in {0} \cup DOMAIN dropdowns :
       /\ call' = "documentClick"
       /\ given' = [button |-> inside, isActive |-> FALSE]
       /\ dropdowns' = IF inside = 0
                       THEN [d \in DOMAIN dropdowns |-> FALSE]
                       ELSE dropdowns
  /\ UNCHANGED <<zone, clock, build, returned, currentDate, endDate, dateKeys,
                 openPage, mapEvents, mapPc, mapIndex, markers, geocodedCount,
                 loading, outstanding, cards, buttons, visibleCount>>

\* Calendar page: a click on a day cell with n events.  showEventModal
\* replaces the modal's body, one new closed dropdown per event, and the
\* click then reaches the document's listener.
ShowEventModal ==
  /\ openPage = "calendar"
  /\ \E n \in 1..MaxDropdowns :
       /\ call' = "showEventModal"
       /\ given' = [button |-> n, isActive |-> FALSE]
       /\ dropdowns' = [d \in 1..n |-> FALSE]
  /\ UNCHANGED <<zone, clock, build, returned, currentDate, endDate, dateKeys,
                 openPage, mapEvents, mapPc, mapIndex, markers, geocodedCount,
                 loading, outstanding, cards, buttons, visibleCount>>

DropNext ==
  \/ ClickAddToCalendar
  \/ ClickElsewhere
  \/ ShowEventModal

DropSpec == DropInit /\ [][DropNext]_vars

\* ===================================================================
\* The script of the map page
\* ===================================================================
MaxMapEvents == 3

\* Entries of the page's `events` constant, by what the marker loop reads of
\* them: latLng, venue, location, county ('' is <<>>).  A latLng string is
\* kept as its pieces between commas, trimmed.
MapItems ==
  LET Hall == <<"H", "a", "l", "l">>
      MapItem(latLng, venue, location, county) ==
        [latLng |-> latLng, venue |-> venue, location |-> location,
         county |-> county]
  IN
  { MapItem([type |-> "string", parts |-> <<"51", "-2">>], Hall, <<>>, Kent),
    MapItem([type |-> "string", parts |-> <<"51">>], <<>>, <<>>, Kent),
    MapItem([type |-> "string", parts |-> <<"x", "-2">>], <<>>, <<>>, <<>>),
    MapItem([type |-> "object", lat |-> 51, lng |-> -2], <<>>, <<>>, <<>>),
    MapItem([type |-> "object", lat |-> 51, lng |-> 0], Hall, <<>>, <<>>),
    MapItem([type |-> "null"], <<>>, Hall, Devon),
    MapItem([type |-> "null"], <<>>, <<>>, <<>>) }

\* What a geocoding request comes to: a first result with coordinates, a
\* first result without usable coordinates, an empty result list, or a
\* rejected fetch or a body that is not JSON.
GeocodeOutcomes ==
  { [kind |-> "found", lat |-> "52", lon |-> "-1"],
    [kind |-> "found", lat |-> "x", lon |-> "-1"],
    [kind |-> "empty", lat |-> "", lon |-> ""],
    [kind |-> "failed", lat |-> "", lon |-> ""] }

\* parseFloat on the number texts of the model; 0 stands for NaN as for every
\* other falsy value (undefined, null, 0 itself), which the script tells
\* apart from coordinates only by `!lat || !lon`.
parseFloat(text) ==
  CASE text = "51" -> 51
    [] text = "52" -> 52
    [] text = "-1" -> -1
    [] text = "-2" -> -2
    [] OTHER -> 0

\* A geocodeAddress that lets a failure of the request escape.
geocodeAddressRethrowing(outcome) ==
  IF outcome.kind = "found"
  THEN [threw |-> FALSE, found |-> TRUE, lat |-> outcome.lat, lon |-> outcome.lon]
  ELSE [threw |-> outcome.kind = "failed", found |-> FALSE, lat |-> "", lon |-> ""]

\* geocodeAddress(query), by the outcome of its request: data[0] || null, and
\* null from the catch block.
geocodeAddress(outcome) ==
  IF outcome.kind = "found"
  THEN [threw |-> FALSE, found |-> TRUE, lat |-> outcome.lat, lon |-> outcome.lon]
  ELSE [threw |-> FALSE, found |-> FALSE, lat |-> "", lon |-> ""]

\* The page is loaded and addEventMarkers() is called.
MapInit ==
  /\ zone = "UTC"
  /\ clock = UTCInstant(2026, 2, 9, 12, 0)
  /\ NotBuilding
  /\ NoCall
  /\ openPage = "map"
  /\ dropdowns = <<>>
  /\ mapEvents \in UNION {[1..n -> MapItems] : n \in 0..MaxMapEvents}
  /\ mapPc = "loop"
  /\ mapIndex = 1
  /\ markers = <<>>
  /\ geocodedCount = 0
  /\ loading = "shown"
  /\ outstanding = 0
  /\ cards = <<>>
  /\ buttons = <<>>
  /\ visibleCount = 0

\* One pass of `for (const event of events)` up to its first await: the
\* event's own coordinates make a marker; without them and without a query
\* the loop continues; otherwise the pass waits for the one-second timer.
HandleEvent ==
  /\ mapPc = "loop"
  /\ mapIndex <= Len(mapEvents)
  /\ LET event == mapEvents[mapIndex]
         l     == event.latLng
         own   == IF l.type = "string"
                  THEN IF Len(l.parts) = 2
                       THEN LET lat == parseFloat(l.parts[1])
                                lon == parseFloat(l.parts[2])
                            IN  IF lat # 0 /\ lon # 0 THEN <<lat, lon>>
                                ELSE <<0, 0>>
                       ELSE <<0, 0>>
                  ELSE IF l.type = "object"
                  THEN IF l.lat # 0 /\ l.lng # 0 THEN <<l.lat, l.lng>>
                       ELSE <<0, 0>>
                  ELSE <<0, 0>>
         place == Or(event.venue, Or(event.location, event.county))
         UK    == <<",", " ", "U", "K">>
         query == IF event.venue # <<>> /\ event.county # <<>>
                  THEN event.venue \o <<",", " ">> \o event.county \o UK
                  ELSE IF event.location # <<>> /\ event.county # <<>>
                  THEN event.location \o <<",", " ">> \o event.county \o UK
                  ELSE IF place # <<>> THEN place \o UK
                  ELSE <<>>
     IN  IF own[1] # 0 /\ own[2] # 0
         THEN /\ markers' = Append(markers, [event |-> mapIndex,
                                             lat |-> own[1], lon |-> own[2]])
              /\ geocodedCount' = geocodedCount + 1
              /\ mapIndex' = mapIndex + 1
              /\ UNCHANGED mapPc
         ELSE IF query = <<>>
         THEN /\ mapIndex' = mapIndex + 1
              /\ UNCHANGED <<markers, geocodedCount, mapPc>>
         ELSE /\ mapPc' = "timer"
              /\ UNCHANGED <<markers, geocodedCount, mapIndex>>
  /\ UNCHANGED <<zone, clock, build, unit, openPage, dropdowns, mapEvents,
                 loading, outstanding, cards, buttons, visibleCount>>

\* The timer fires and geocodeAddress sends its request.
TimerFires ==
  /\ mapPc = "timer"
  /\ mapPc' = "request"
  /\ outstanding' = outstanding + 1
  /\ UNCHANGED <<zone, clock, build, unit, openPage, dropdowns, mapEvents,
                 mapIndex, markers, geocodedCount, loading, cards, buttons,
                 visibleCount>>

\* The request settles and the pass goes on to its end: no result, or a
\* result whose coordinates make a marker if both are truthy.
GeocodeSettles ==
  /\ mapPc = "request"
  /\ outstanding' = outstanding - 1
  /\ \E outcome \in GeocodeOutcomes :
       LET result == geocodeAddress(outcome)
           lat    == parseFloat(result.lat)
           lon    == parseFloat(result.lon)
       IN  IF result.threw
           THEN /\ mapPc' = "rejected"
                /\ UNCHANGED <<markers, geocodedCount, mapIndex>>
           ELSE /\ mapPc' = "loop"
                /\ mapIndex' = mapIndex + 1
                /\ IF result.found /\ lat # 0 /\ lon # 0
                   THEN /\ markers' = Append(markers, [event |-> mapIndex,
                                                       lat |-> lat, lon |-> lon])
                        /\ geocodedCount' = geocodedCount + 1
                   ELSE UNCHANGED <<markers, geocodedCount>>
  /\ UNCHANGED <<zone, clock, build, unit, openPage, dropdowns, mapEvents,
                 loading, cards, buttons, visibleCount>>

\* After the last event: loadingEl.style.display = 'none'.
LeaveLoop ==
  /\ mapPc = "loop"
  /\ mapIndex > Len(mapEvents)
  /\ loading' = "hidden"
  /\ mapPc' = "done"
  /\ UNCHANGED <<zone, clock, build, unit, openPage, dropdowns, mapEvents,
                 mapIndex, markers, geocodedCount, outstanding, cards, buttons,
                 visibleCount>>

MapNext ==
  \/ HandleEvent
  \/ TimerFires
  \/ GeocodeSettles
  \/ LeaveLoop

MapSpec == MapInit /\ [][MapNext]_vars

\* The browser runs the continuation of an async function, fires a due timer
\* and settles a request.
MapFairSpec == MapSpec /\ WF_vars(MapNext)

\* ===================================================================
\* The single-page county filter (the build of src/src/build.ts)
\* ===================================================================
MaxCards == 3

\* Records by county: two counties, no county, and a county whose name is
\* the word the "All Counties" button carries as its data-county.
FilterPool ==
  { Ev(<<"A", "b">>, <<>>, <<>>, <<2026, 2, 7>>, <<>>, <<>>, Kent),
    Ev(<<"C", "d">>, <<>>, <<>>, <<2026, 2, 28>>, <<>>, <<>>, Devon),
    Ev(<<"E", "f">>, <<>>, <<>>, <<2026, 6, 13>>, <<>>, <<>>, <<>>),
    Ev(<<"G", "h">>, <<>>, <<>>, <<2026, 3, 1>>, <<>>, <<>>, <<"a", "l", "l">>) }

\* A filterEvents that does not update the buttons.
filterEventsCardsOnly(dom, selectedCounty) ==
  LET Shown(i) == selectedCounty = <<"a", "l", "l">>
                  \/ dom.cards[i].county = selectedCounty
  IN  [cards   |-> [i \in DOMAIN dom.cards |->
                      [county |-> dom.cards[i].county, hidden |-> ~Shown(i)]],
       buttons |-> dom.buttons,
       visibleCount |-> Cardinality({i \in DOMAIN dom.cards : Shown(i)})]

\* filterEvents(selectedCounty) of the page script on the cards, the buttons
\* and the text of #visible-count.
filterEvents(dom, selectedCounty) ==
  LET Shown(i) == selectedCounty = <<"a", "l", "l">>
                  \/ dom.cards[i].county = selectedCounty
  IN  [cards   |-> [i \in DOMAIN dom.cards |->
                      [county |-> dom.cards[i].county, hidden |-> ~Shown(i)]],
       buttons |-> [i \in DOMAIN dom.buttons |->
                      [county |-> dom.buttons[i].county,
                       count  |-> dom.buttons[i].count,
                       active |-> dom.buttons[i].county = selectedCounty]],
       visibleCount |-> Cardinality({i \in DOMAIN dom.cards : Shown(i)})]

\* The page generateHTML(sortedEvents, countyMap) renders, as the browser
\* has parsed it and before its script runs: a card per event whose
\* data-county is the county or "Not Specified", the "All Counties" button
\* (active) and a button per entry of the county aggregate, each with its
\* count, and the number of events in #visible-count.  (An attribute value
\* is read back as the text escapeHtml was given.)
FilterInit ==
  /\ zone = "UTC"
  /\ clock = UTCInstant(2026, 2, 9, 12, 0)
  /\ NotBuilding
  /\ NoCall
  /\ openPage = "single"
  /\ dropdowns = <<>>
  /\ mapEvents = <<>>
  /\ mapPc = "closed"
  /\ mapIndex = 0
  /\ markers = <<>>
  /\ geocodedCount = 0
  /\ loading = "shown"
  /\ outstanding = 0
  /\ \E fetched \in SeqsUpTo(FilterPool, MaxCards) :
       LET sorted    == sortEventsByDate(fetched)
           aggregate == extractCounties(sorted)
       IN  /\ cards = [i \in 1..Len(sorted) |->
                         [county |-> Or(sorted[i].county, NotSpecified),
                          hidden |-> FALSE]]
           /\ buttons = <<[county |-> <<"a", "l", "l">>, count |-> Len(sorted),
                           active |-> TRUE]>>
                        \o [i \in 1..Len(aggregate) |->
                              [county |-> aggregate[i][1],
                               count |-> aggregate[i][2], active |-> FALSE]]
           /\ visibleCount = Len(sorted)

\* The script runs at the end of the page: filterEvents('all').
RunFilterScript ==
  /\ call = "none"
  /\ LET dom == filterEvents([cards |-> cards, buttons |-> buttons],
                             <<"a", "l", "l">>)
     IN  /\ cards' = dom.cards
         /\ buttons' = dom.buttons
         /\ visibleCount' = dom.visibleCount
  /\ call' = "filterEvents"
  /\ given' = 1
  /\ UNCHANGED <<zone, clock, build, returned, currentDate, endDate, dateKeys,
                 openPage, dropdowns, mapEvents, mapPc, mapIndex, markers,
                 geocodedCount, loading, outstanding>>

\* A click on a filter button: filterEvents(button.getAttribute('data-county')).
ClickFilterButton ==
  /\ call = "filterEvents"
  /\ \E button \in DOMAIN buttons :
       LET dom == filterEvents([cards |-> cards, buttons |-> buttons],
                               buttons[button].county)
       IN  /\ cards' = dom.cards
           /\ buttons' = dom.buttons
           /\ visibleCount' = dom.visibleCount
           /\ given' = button
  /\ UNCHANGED <<zone, clock, build, call, returned, currentDate, endDate,
                 dateKeys, openPage, dropdowns, mapEvents, mapPc, mapIndex,
                 markers, geocodedCount, loading, outstanding>>

FilterNext ==
  \/ RunFilterScript
  \/ ClickFilterButton

FilterSpec == FilterInit /\ [][FilterNext]_vars

\* ===================================================================
\* Properties
\* ===================================================================
\* The specification's resolveStartDate: startDate > start_date > date.
ResolvedStart(r) ==
  IF r.startDate # <<>> THEN r.startDate
  ELSE IF r.start_date # <<>> THEN r.start_date
  ELSE r.date

\* The specification's end alias: endDate, else end_date, else absent.
ResolvedEndAlias(r) == IF r.endDate # <<>> THEN r.endDate ELSE r.end_date

\* The inclusive end date: the end alias, or the start date without one.
InclusiveEnd(r) ==
  IF ResolvedEndAlias(r) # <<>> THEN ResolvedEndAlias(r) ELSE ResolvedStart(r)

\* The calendar day after a date.
DayAfter(d) == CivilFromDays(DaysFromCivil(d[1], d[2], d[3]) + 1)

\* d1 is on or after d2 (calendar dates).
OnOrAfter(d1, d2) ==
  DaysFromCivil(d1[1], d1[2], d1[3]) >= DaysFromCivil(d2[1], d2[2], d2[3])

Compact(d) == d[1] * 10000 + d[2] * 100 + d[3]

\* The calendar day of the build on the host.
Today == CivilFromDays((clock + Offset(zone, clock)) \div 86400)

Occurs(r, s) == \E i \in 1..Len(s) : s[i] = r
Times(r, s)  == Cardinality({i \in 1..Len(s) : s[i] = r})
IsPermutation(s, t) ==
  /\ Len(s) = Len(t)
  /\ \A i \in 1..Len(s) : Times(s[i], s) = Times(s[i], t)

\* The list the fetch delivered (empty before the fetch and after a failure).
Fetched == IF events.type = "array" THEN events.items ELSE <<>>

AfterFilter  == pc \in {"sort", "counties", "thisMonth", "monthly", "eventIcs",
                        "feed", "index", "countyPages", "staticPages", "done"}
AfterSort    == AfterFilter /\ pc # "sort"
AfterCounties  == AfterSort /\ pc # "counties"
AfterThisMonth == AfterCounties /\ pc # "thisMonth"
AfterMonthly   == AfterThisMonth /\ pc # "monthly"
AfterEventIcs  == AfterMonthly /\ pc # "eventIcs"

\* The cards of the events page index.html, once it is written.
IndexCards ==
  UNION { UNION ({ {f.content.page[1].thisMonth[i] :
                      i \in 1..Len(f.content.page[1].thisMonth)} }
                 \cup { {f.content.page[1].months[k].cards[i] :
                           i \in 1..Len(f.content.page[1].months[k].cards)} :
                        k \in 1..Len(f.content.page[1].months) })
          : f \in {g \in files : g.path = IndexHtml} }

\* The VEVENTs of the individual event files under ics/.
EventFileVEvents ==
  UNION { {f.content.vevents[i] : i \in 1..Len(f.content.vevents)}
          : f \in {g \in files : SubSeq(g.path, 1, Len(IcsDir)) = IcsDir} }

\* -------------------------------------------------------------------- C1
\* C1: for every event with a resolvable start date, the end date exported in
\* the Google Calendar URL, in the Outlook URL and in the DTEND of the event's
\* ICS file is the calendar day after the event's inclusive end date.
C1_ExportedEndIsDayAfter ==
  /\ \A c \in IndexCards :
       ResolvedStart(c.event) # <<>> =>
         /\ c.google.end = Compact(DayAfter(InclusiveEnd(c.event)))
         /\ c.outlook.enddt.date = DayAfter(InclusiveEnd(c.event))
  /\ AfterEventIcs =>
       \A i \in 1..Len(sortedEvents) : \A v \in EventFileVEvents :
         ( /\ ResolvedStart(sortedEvents[i]) # <<>>
           /\ v.summary = sortedEvents[i].name
           /\ v.dtstart = Compact(ResolvedStart(sortedEvents[i])) )
         => v.dtend = Compact(DayAfter(InclusiveEnd(sortedEvents[i])))

\* -------------------------------------------------------------------- C2
\* C2: the upcoming filter keeps a fetched record that has a resolvable date
\* if and only if its end date (its start date without an end alias) is on or
\* after the calendar day of the build.
C2_UpcomingIffEndsOnOrAfterToday ==
  AfterFilter =>
    \A i \in 1..Len(Fetched) :
      LET r == Fetched[i]
      IN  InclusiveEnd(r) # <<>> =>
            (Occurs(r, upcomingEvents) <=> OnOrAfter(InclusiveEnd(r), Today))

\* -------------------------------------------------------------------- C3
\* The event list the claim gives for a document.
ExpectedEvents(doc) ==
  IF doc.type = "array" THEN doc
  ELSE IF doc.type = "object" /\ doc.hasEvents /\ doc.events.type = "array"
       THEN doc.events
  ELSE JArray(<<>>)

C4_FetchFailureAbortsBuild ==
  response.status # "ok" =>
    /\ fetchCount <= 1
    /\ pc \in {"start", "fetch", "failed", "exited"}
    /\ pc \in {"failed", "exited"} => fetchCount = 1
    /\ files = {}
    /\ views = <<<<>>, <<>>, <<>>, <<>>, <<>>>>
    /\ exitCode \in {-1, 1}
    /\ pc = "exited" <=> exitCode = 1

\* The fetch came back with a non-success status and the process has exited.
C4_Witness ==
  /\ response.status = "http_error"
  /\ pc = "exited"
  /\ exitCode = 1
  /\ fetchCount = 1

\* -------------------------------------------------------------------- C5
\* C5: a fetched record without a resolvable start date is in no date view
\* (current-month list, month buckets) but is still in the full event list and
\* counted in the county aggregate.
C5_NoStartDateKeptInUnfilteredViews ==
  AfterMonthly =>
    \A i \in 1..Len(Fetched) :
      LET r == Fetched[i]
      IN  ResolvedStart(r) = <<>> =>
            /\ ~Occurs(r, thisMonthEvents)
            /\ \A m \in DOMAIN monthlyEvents : ~Occurs(r, monthlyEvents[m])
            /\ Occurs(r, sortedEvents)
            /\ \E k \in 1..Len(countyMap) :
                 countyMap[k][1] = (IF r.county # <<>> THEN r.county ELSE NotSpecified)

\* -------------------------------------------------------------------- C6
\* C6: the descending sort returns a permutation of the list it was given (the
\* upcoming events) in which start dates are non-increasing and every record
\* without a start date comes after every record with one.
C6_SortedDescendingMissingLast ==
  AfterSort =>
    /\ IsPermutation(sortedEvents, filterUpcomingEvents(zone, clock, Fetched))
    /\ \A i, j \in 1..Len(sortedEvents) :
         i < j =>
           /\ ~StrLess(ResolvedStart(sortedEvents[i]), ResolvedStart(sortedEvents[j]))
           /\ ResolvedStart(sortedEvents[i]) = <<>> =>
                ResolvedStart(sortedEvents[j]) = <<>>

\* The sort has reordered three records, one of them without a start date.
C6_Witness ==
  /\ pc = "counties"
  /\ Len(sortedEvents) = 3
  /\ sortedEvents # filterUpcomingEvents(zone, clock, Fetched)
  /\ ResolvedStart(sortedEvents[3]) = <<>>
  /\ ResolvedStart(sortedEvents[1]) # ResolvedStart(sortedEvents[2])

\* -------------------------------------------------------------------- C7
CountyOf(r) == IF r.county # <<>> THEN r.county ELSE NotSpecified

\* C7: the county aggregate has one key per distinct county of the records
\* (a missing county counted under "Not Specified"), each key once, its value
\* the number of records of that county; the keys are in alphabetical order
\* with "Not Specified" last.
C7_CountyAggregate ==
  AfterCounties =>
    /\ {countyMap[k][1] : k \in 1..Len(countyMap)}
         = {CountyOf(sortedEvents[i]) : i \in 1..Len(sortedEvents)}
    /\ \A k \in 1..Len(countyMap) :
         /\ countyMap[k][2]
              = Cardinality({i \in 1..Len(sortedEvents) :
                               CountyOf(sortedEvents[i]) = countyMap[k][1]})
         /\ \A l \in 1..Len(countyMap) :
              k < l =>
                /\ countyMap[k][1] # countyMap[l][1]
                /\ countyMap[k][1] # NotSpecified
                /\ countyMap[l][1] # NotSpecified =>
                     localeCompare(countyMap[k][1], countyMap[l][1]) < 0

\* Three counties, "Not Specified" among them, counted in another order than
\* the final one.
C7_Witness ==
  /\ pc = "thisMonth"
  /\ Len(countyMap) = 3
  /\ countyMap[3][1] = NotSpecified
  /\ countyMap[2][1] = Yorkshire
  /\ CountCounties(sortedEvents) # countyMap

\* -------------------------------------------------------------------- C8
\* C8: a record of the list is in bucket m of the month grouping if and only
\* if it has a start date whose year is the target year and whose month index
\* (0-11) is m.
C8_MonthBucketIffYearAndMonth ==
  AfterMonthly =>
    \A i \in 1..Len(sortedEvents) : \A m \in 0..11 :
      LET r == sortedEvents[i]
      IN  (m \in DOMAIN monthlyEvents /\ Occurs(r, monthlyEvents[m]))
          <=> ( /\ ResolvedStart(r) # <<>>
                /\ ResolvedStart(r)[1] = TargetYear
                /\ ResolvedStart(r)[2] - 1 = m )

\* -------------------------------------------------------------------- C9
\* C9: within every month bucket the events are in ascending order of start
\* date.
C9_BucketsAscending ==
  AfterMonthly =>
    \A m \in DOMAIN monthlyEvents :
      \A i, j \in 1..Len(monthlyEvents[m]) :
        i < j => ~StrLess(ResolvedStart(monthlyEvents[m][j]),
                          ResolvedStart(monthlyEvents[m][i]))

\* A bucket of two events with different start dates, which the list given to
\* the grouping (sorted descending) holds in the opposite order.
C9_Witness ==
  /\ pc = "eventIcs"
  /\ \E m \in DOMAIN monthlyEvents :
       /\ Len(monthlyEvents[m]) >= 2
       /\ StrLess(ResolvedStart(monthlyEvents[m][1]),
                  ResolvedStart(monthlyEvents[m][2]))

\* -------------------------------------------------------------------- C10
\* C10: the current-month list holds exactly the records of the list whose
\* start date falls in today's year and month, and no record without a start
\* date.
C10_CurrentMonthExactly ==
  AfterThisMonth =>
    \A i \in 1..Len(sortedEvents) :
      LET r == sortedEvents[i]
      IN  Occurs(r, thisMonthEvents)
          <=> ( /\ ResolvedStart(r) # <<>>
                /\ ResolvedStart(r)[1] = Today[1]
                /\ ResolvedStart(r)[2] = Today[2] )

\* -------------------------------------------------------------------- C11
Suffixes   == {"st", "nd", "rd", "th"}
DayTexts   == {ToString(d) : d \in 1..31}
YearTexts  == {ToString(y) : y \in 2025..2028}
Weekdays   == {WeekdayNames[i] : i \in 1..7}
MonthNames == {MonthShortNames[i] : i \in 1..12}

\* "<Weekday>, <day><ordinal> <Month> <year>"
IsSingleDateForm(text) ==
  /\ Len(text) = 8
  /\ text[1] \in Weekdays /\ text[2] = ", "
  /\ text[3] \in DayTexts /\ text[4] \in Suffixes /\ text[5] = " "
  /\ text[6] \in MonthNames /\ text[7] = " " /\ text[8] \in YearTexts

\* "<day><ordinal> - <day><ordinal> <Month> <year>"
IsRangeFormOneMonth(text) ==
  /\ Len(text) = 9
  /\ text[1] \in DayTexts /\ text[2] \in Suffixes /\ text[3] = " - "
  /\ text[4] \in DayTexts /\ text[5] \in Suffixes /\ text[6] = " "
  /\ text[7] \in MonthNames /\ text[8] = " " /\ text[9] \in YearTexts

\* "<day><ordinal> <Month> - <day><ordinal> <Month> <year>"
IsRangeFormTwoMonths(text) ==
  /\ Len(text) = 11
  /\ text[1] \in DayTexts /\ text[2] \in Suffixes /\ text[3] = " "
  /\ text[4] \in MonthNames /\ text[5] = " - "
  /\ text[6] \in DayTexts /\ text[7] \in Suffixes /\ text[8] = " "
  /\ text[9] \in MonthNames /\ text[10] = " " /\ text[11] \in YearTexts

IsRangeForm(text) == IsRangeFormOneMonth(text) \/ IsRangeFormTwoMonths(text)

\* C11: formatDate returns "Date TBA" if and only if the record has no start
\* date; for a record with a start date it returns the single-date form
\* (weekday, day with ordinal, month abbreviation, year) when the end date is
\* absent or equal to the start date, and the range form if and only if an end
\* date is present and differs from the start date.
C11_FormByCase ==
  call = "formatDate" =>
    LET start == ResolvedStart(given)
        end   == ResolvedEndAlias(given)
    IN  /\ (returned = <<"Date TBA">>) <=> (start = <<>>)
        /\ (start # <<>> /\ (end = <<>> \/ end = start))
             => (IsSingleDateForm(returned) /\ ~IsRangeForm(returned))
        /\ IsRangeForm(returned) <=> (start # <<>> /\ end # <<>> /\ end # start)

\* formatDate has formatted a record whose end date equals its start date.
C11_Witness ==
  /\ call = "formatDate"
  /\ ResolvedStart(given) # <<>>
  /\ ResolvedEndAlias(given) = ResolvedStart(given)
  /\ IsSingleDateForm(returned)

\* -------------------------------------------------------------------- C12
\* C12: for a record whose end date differs from its start date, the range
\* form shows the month name once when both dates are in the same month of the
\* same year, and both month names when they are not.
C12_MonthOnceIffSameMonth ==
  call = "formatDate" =>
    LET start == ResolvedStart(given)
        end   == ResolvedEndAlias(given)
    IN  (start # <<>> /\ end # <<>> /\ end # start) =>
          IF start[1] = end[1] /\ start[2] = end[2]
          THEN IsRangeFormOneMonth(returned)
          ELSE IsRangeFormTwoMonths(returned)

\* -------------------------------------------------------------------- C13
\* C13: for every day of the month from 1 to 31 the ordinal suffix is "st"
\* for 1, 21 and 31, "nd" for 2 and 22, "rd" for 3 and 23, and "th" for 11,
\* 12, 13 and every other day.
C13_OrdinalSuffix ==
  call = "getOrdinalSuffix" =>
    returned = (IF given \in {1, 21, 31} THEN "st"
                ELSE IF given \in {2, 22} THEN "nd"
                ELSE IF given \in {3, 23} THEN "rd"
                ELSE "th")

\* getOrdinalSuffix has returned "th" for the 11th.
C13_Witness ==
  /\ call = "getOrdinalSuffix"
  /\ given = 11
  /\ returned = "th"

\* -------------------------------------------------------------------- C14
DayNumber(d) == DaysFromCivil(d[1], d[2], d[3])

\* The calendar dates from one date to another, inclusive, ascending.
CivilDates(from, to) ==
  [i \in 1..(DayNumber(to) - DayNumber(from) + 1) |->
     CivilFromDays(DayNumber(from) + i - 1)]

\* C14: for a record with a start date and an end date not before it (the
\* start date itself without an end alias), the date-span loop yields exactly
\* the calendar dates from start to end inclusive, each once, ascending.
C14_SpanIsEveryDateOnce ==
  ( /\ call = "dateSpanDone"
    /\ ResolvedStart(given) # <<>>
    /\ OnOrAfter(InclusiveEnd(given), ResolvedStart(given)) )
  => dateKeys = CivilDates(ResolvedStart(given), InclusiveEnd(given))

\* -------------------------------------------------------------------- C15
\* The number of calendar dates from a record's start to its end, none when
\* it has no start date or ends before it starts.
SpanDays(r) ==
  IF ResolvedStart(r) = <<>> THEN 0
  ELSE IF ~OnOrAfter(InclusiveEnd(r), ResolvedStart(r)) THEN 0
  ELSE DayNumber(InclusiveEnd(r)) - DayNumber(ResolvedStart(r)) + 1

\* C15: the date-span loop terminates for every record: every iteration
\* produces one date and moves currentDate on by at least 23 hours (a day, less
\* the hour a clock change may take), and the loop never produces more dates
\* than there are calendar dates from start to end (none for an end before
\* the start, one for an end equal to the start or absent).
C15_SpanLoopTerminates ==
  /\ call \in {"dateSpan", "dateSpanDone"} => Len(dateKeys) <= SpanDays(given)
  /\ call = "dateSpan" =>
       currentDate >= ParseDateOnly(ResolvedStart(given))
                        + Len(dateKeys) * 23 * 3600

\* The loop has ended, without a date, for a record that ends before it starts.
C15_Witness ==
  /\ call = "dateSpanDone"
  /\ ResolvedStart(given) # <<>>
  /\ ~OnOrAfter(InclusiveEnd(given), ResolvedStart(given))
  /\ dateKeys = <<>>

\* -------------------------------------------------------------------- C16
\* A record with its start date under startDate alone.
StartCanonical(r) ==
  [r EXCEPT !.startDate = ResolvedStart(r), !.start_date = <<>>, !.date = <<>>]

\* C16: every operation that needs a record's start date (upcoming filter,
\* both sorts, current-month filter, month grouping, display, date span,
\* calendar exports) reads startDate, then start_date, then date: each gives
\* for a record what it gives for the record that has that one date under
\* startDate alone; the exports, the ICS file name and the date span start on
\* that date, and without any alias there is no export and no span.
C16_SameStartDateEverywhere ==
  call = "everyOperation" =>
    LET start == ResolvedStart(given[1])
    IN  /\ returned = EveryOperation(zone, clock, StartCanonical(given[1]),
                                     StartCanonical(given[2]))
        /\ returned.icsPath = IcsDir \o slugify(given[1].name) \o <<"-">>
                                \o DateText(start) \o DotIcs
        /\ start = <<>> =>
             /\ returned.display = <<"Date TBA">>
             /\ returned.span = <<>>
             /\ returned.google.empty /\ returned.outlook.empty
             /\ returned.single = <<>>
        /\ start # <<>> =>
             /\ returned.span[1] = ParseDateOnly(start)
             /\ returned.google.start = Compact(start)
             /\ returned.outlook.startdt
                  = toISOString(ParseLocalMidnight(zone, start))
             /\ returned.single[1].dtstart = Compact(start)
             /\ returned.feed[1].dtstart = Compact(start)

\* Every operation has been applied to a record that has three different
\* dates under the three aliases.
C16_Witness ==
  /\ call = "everyOperation"
  /\ given[1].startDate # <<>> /\ given[1].start_date # <<>>
  /\ given[1].date # <<>>
  /\ given[1].startDate # given[1].start_date
  /\ given[1].start_date # given[1].date
  /\ returned.google.start = Compact(given[1].startDate)

\* -------------------------------------------------------------------- C17
\* A record with its inclusive end date under endDate alone.
EndCanonical(r) == [r EXCEPT !.endDate = InclusiveEnd(r), !.end_date = <<>>]

DeliveredRecords ==
  /\ response.status = "ok"
  /\ \/ response.doc.type = "array"
     \/ /\ response.doc.type = "object"
        /\ response.doc.hasEvents
        /\ response.doc.events.type = "array"

Paths == {f.path : f \in files}

\* C18: once the fetch has delivered records (each with a name, any optional
\* field absent), no step of the build raises an error: the build is never
\* in its failure handler, never exits with status 1, and at its end every
\* page and the feed are written and the exit status is 0.
C18_NoErrorOnAbsentFields ==
  DeliveredRecords =>
    /\ pc \in {"start", "fetch", "filter", "sort", "counties", "thisMonth",
               "monthly", "eventIcs", "feed", "index", "countyPages",
               "staticPages", "done"}
    /\ exitCode \in {-1, 0}
    /\ pc = "done" =>
         /\ exitCode = 0
         /\ {IndexHtml, EventsDir \o CalendarIcs, ShopsPage, LayoutsPage,
             MapPage, CalendarPage} \subseteq Paths

\* The build has ended with status 0 on records without any date, without a
\* start date, and without a county.
C18_Witness ==
  /\ pc = "done"
  /\ exitCode = 0
  /\ \E i \in 1..Len(Fetched) : InclusiveEnd(Fetched[i]) = <<>>
  /\ \E i \in 1..Len(sortedEvents) : ResolvedStart(sortedEvents[i]) = <<>>
  /\ \E i \in 1..Len(sortedEvents) : sortedEvents[i].county = <<>>

\* -------------------------------------------------------------------- C19
\* C19: no derivation changes the collection it is given: the fetched list
\* is as the fetch delivered it, the list the upcoming filter returned is as
\* the filter returned it after the descending sort and every later step, and
\* the sorted list is as the sort returned it after every later step.
C19_InputsUnchanged ==
  /\ (DeliveredRecords /\ pc \notin {"start", "fetch"}) =>
       events = ExpectedEvents(response.doc)
  /\ AfterSort =>
       /\ upcomingEvents = filterUpcomingEvents(zone, clock, Fetched)
       /\ sortedEvents
            = sortEventsByDate(filterUpcomingEvents(zone, clock, Fetched))

\* -------------------------------------------------------------------- C20
\* The data of the calendar page, once it is written.
CalendarData ==
  (CHOOSE f \in files : f.path = CalendarPage).content.page[1]

\* C20: in the calendar page of a finished build, every upcoming event is
\* listed in the cell of every day of the displayed month from its start date
\* to its end date.
C20_EveryDayOfEveryUpcomingEvent ==
  pc = "done" =>
    LET cells == generateCalendar(CalendarData)
    IN  \A i \in 1..Len(upcomingEvents) : \A day \in DOMAIN cells :
          LET r == upcomingEvents[i]
              D == <<CalendarData.year, CalendarData.month + 1, day>>
          IN  ( /\ ResolvedStart(r) # <<>>
                /\ OnOrAfter(D, ResolvedStart(r))
                /\ OnOrAfter(InclusiveEnd(r), D) )
              => \E k \in 1..Len(cells[day].events) :
                   cells[day].events[k].name = r.name

\* -------------------------------------------------------------------- C21
\* The events page index.html, once it is written.
IndexPage == (CHOOSE f \in files : f.path = IndexHtml).content.page[1]

\* C21: on the events page, every event of the month bucket that "Events by
\* Month" leaves out because its index is today's month has a card in the
\* "This Month" section of the page.
C21_OmittedBucketIsInThisMonth ==
  pc \in {"countyPages", "staticPages", "done"} =>
    LET currentMonth == getMonth(zone, clock)
    IN  currentMonth \in DOMAIN monthlyEvents =>
          \A i \in 1..Len(monthlyEvents[currentMonth]) :
            \E k \in 1..Len(IndexPage.thisMonth) :
              IndexPage.thisMonth[k].event = monthlyEvents[currentMonth][i]

\* -------------------------------------------------------------------- C22
\* The UID the feed made of the list evs gives its last event.
LastFeedUid(z, evs) ==
  LET feed == generateAllEventsICS(z, evs) IN feed[Len(feed)].uid

\* C22: the UID an event gets in the all-events feed is the same in every
\* build that has an event of that name and resolved start date: on every
\* host, alone or after any other events, and whatever its other fields.
C22_FeedUidOfNameAndStartDate ==
  (call = "everyOperation" /\ ResolvedStart(given[1]) # <<>>) =>
    LET event == given[1]
        uid   == returned.feed[1].uid
    IN  \A z \in HostZones : \A other \in DateRecords :
          \A same \in {event, StartCanonical(event),
                       [event EXCEPT !.endDate = <<>>, !.end_date = <<>>,
                                     !.county = <<>>]} :
            /\ LastFeedUid(z, <<same>>) = uid
            /\ LastFeedUid(z, <<other, same>>) = uid
            /\ LastFeedUid(z, <<other, other, same>>) = uid

\* The feed of two different events that both have a start date.
C22_Witness ==
  /\ call = "everyOperation"
  /\ given[1].name # given[2].name
  /\ Len(returned.feed) = 2
  /\ returned.feed[1].uid # returned.feed[2].uid
  /\ given[1].county # <<>>
  /\ ResolvedEndAlias(given[1]) # <<>>

\* -------------------------------------------------------------------- C23
Open == {d \in DOMAIN dropdowns : dropdowns[d]}

\* C23: at most one calendar dropdown is open; after a click on a button its
\* own dropdown is open if and only if it was closed before and every other
\* is closed; after a click outside the calendar widgets all are closed.
C23_AtMostOneDropdownOpen ==
  openPage \in {"events", "calendar"} =>
    /\ Cardinality(Open) <= 1
    /\ call = "toggleCalendarDropdown" =>
         Open = (IF given.isActive THEN {} ELSE {given.button})
    /\ (call = "documentClick" /\ given.button = 0) => Open = {}

\* A button was clicked while the dropdown of another button was open.
C23_Witness ==
  /\ call = "toggleCalendarDropdown"
  /\ ~given.isActive
  /\ Open = {given.button}
  /\ Len(dropdowns) >= 3

\* -------------------------------------------------------------------- C24
\* C24: the marker loop handles the events in order, one at a time, with at
\* most one geocoding request outstanding and never more markers than events
\* handled, and it reaches its end with the loading overlay hidden.
C24_MarkerLoopEnds ==
  /\ [](/\ outstanding \in {0, 1}
        /\ outstanding = 1 <=> mapPc = "request"
        /\ mapIndex \in 1..(Len(mapEvents) + 1)
        /\ Len(markers) = geocodedCount
        /\ Len(markers) <= Len(mapEvents)
        /\ \A k \in 1..Len(markers) :
             /\ markers[k].event < mapIndex
             /\ k > 1 => markers[k - 1].event < markers[k].event
        /\ loading = "hidden" <=> mapPc = "done")
  /\ <>(mapPc = "done" /\ mapIndex = Len(mapEvents) + 1 /\ loading = "hidden")

\* The loop has ended after three events of which only the second made a
\* marker.
C24_Witness ==
  /\ mapPc = "done"
  /\ loading = "hidden"
  /\ Len(mapEvents) = 3
  /\ Len(markers) = 1
  /\ markers[1].event = 2

\* -------------------------------------------------------------------- C25
\* C25: after the script has run and after every click on a filter button
\* (`given` is the button chosen, the first one at load), a card is visible
\* if and only if the button's filter is "all" or the card's county, exactly
\* that button is active, and the visible count is the count printed on it.
C25_FilterShowsSelectedCounty ==
  (openPage = "single" /\ call = "filterEvents") =>
    LET selected == buttons[given].county
    IN  /\ \A i \in DOMAIN cards :
             ~cards[i].hidden <=> ( \/ selected = <<"a", "l", "l">>
                                    \/ cards[i].county = selected )
        /\ {b \in DOMAIN buttons : buttons[b].active} = {given}
        /\ visibleCount = buttons[given].count

\* The same statement for pages without a county named "all".
C25_WithoutCountyNamedAll ==
  (\A b \in DOMAIN buttons : b > 1 => buttons[b].county # <<"a", "l", "l">>)
  => C25_FilterShowsSelectedCounty

\* -------------------------------------------------------------------- C26
\* The page written at a path.
PageAt(path) == (CHOOSE f \in files : f.path = path).content.page[1]

\* C26: the counts of the county aggregate sum to the number of records it
\* was made of and each is at least 1; the events page shows that sum as its
\* "All Counties" total and lists as many events; and the page of each county
\* lists as many events as the county's count.
C26_CountsMatchListedEvents ==
  /\ AfterCounties =>
       /\ SumCounts(countyMap) = Len(sortedEvents)
       /\ \A i \in 1..Len(countyMap) : countyMap[i][2] >= 1
  /\ pc = "done" =>
       /\ IndexPage.allCounties = Len(sortedEvents)
       /\ IndexPage.listed = Len(sortedEvents)
       /\ \A i \in 1..Len(countyMap) :
            CountyPagePath(countyMap[i][1]) \in Paths =>
              PageAt(CountyPagePath(countyMap[i][1])).listed = countyMap[i][2]

\* -------------------------------------------------------------------- C27
\* C27: after a successful build every link of the "Filter by County" bar of
\* the events page leads to a page the build has written, and no two
\* counties have the same page path or the same calendar path.
C27_CountyLinksLeadToOwnPages ==
  pc = "done" =>
    /\ \A i \in 1..Len(IndexPage.countyLinks) :
         EventsDir \o IndexPage.countyLinks[i].slug \o <<"/">> \o IndexHtml
           \in Paths
    /\ \A i, j \in 1..Len(countyMap) :
         i # j => /\ CountyPagePath(countyMap[i][1])
                       # CountyPagePath(countyMap[j][1])
                  /\ CountyIcsPath(countyMap[i][1])
                       # CountyIcsPath(countyMap[j][1])

\* The same statement for the links of counties other than "Not Specified".
C27_LinksOfNamedCounties ==
  pc = "done" =>
    \A i \in 1..Len(IndexPage.countyLinks) :
      IndexPage.countyLinks[i].county # NotSpecified =>
        EventsDir \o IndexPage.countyLinks[i].slug \o <<"/">> \o IndexHtml
          \in Paths

\* -------------------------------------------------------------------- C28
\* The files under ics/.
EventFiles == {f \in files : SubSeq(f.path, 1, Len(IcsDir)) = IcsDir}

\* C28: after a successful build the file that the "Download ICS" link of an
\* upcoming event names exists and holds the VEVENT of that event, there are
\* as many event files as upcoming events, and no two upcoming events have
\* the same file path.
C28_EveryEventHasItsOwnFile ==
  pc = "done" =>
    /\ \A i \in 1..Len(sortedEvents) :
         \E f \in EventFiles :
           /\ f.path = EventIcsPath(sortedEvents[i])
           /\ Len(f.content.vevents) = 1
           /\ f.content.vevents[1].summary = sortedEvents[i].name
           /\ f.content.vevents[1].dtstart
                = Compact(ResolvedStart(sortedEvents[i]))
    /\ Cardinality(EventFiles) = Len(sortedEvents)
    /\ \A i, j \in 1..Len(sortedEvents) :
         i # j => EventIcsPath(sortedEvents[i]) # EventIcsPath(sortedEvents[j])

\* The same statement for lists of different events that all have a start
\* date.
C28_DatedDistinctEvents ==
  ( /\ \A i \in 1..Len(sortedEvents) : ResolvedStart(sortedEvents[i]) # <<>>
    /\ \A i, j \in 1..Len(sortedEvents) :
         i # j => sortedEvents[i] # sortedEvents[j] )
  => C28_EveryEventHasItsOwnFile

\* -------------------------------------------------------------------- C29
\* The calendar day of an instant on a host.
DayOn(z, t) == CivilFromDays((t + Offset(z, t)) \div 86400)

\* C29: the views derived from dates are the same on every host: for the same
\* records and the same calendar reference day, the upcoming set, the
\* current-month list, the month buckets, the display date, the date span and
\* the exported start and end dates of a build on any other host equal those
\* of this host.
C29_SameViewsOnEveryHost ==
  call = "everyOperation" =>
    \A z \in HostZones, t \in BuildTimes :
      DayOn(z, t) = Today =>
        /\ EveryOperation(z, t, given[1], given[2]) = returned
        /\ expandDateSpan(z, given[1]) = expandDateSpan(zone, given[1])

\* -------------------------------------------------------------------- C30
\* The start and the exclusive end that the county file writes for an event.
CountyExport == generateICS(zone, <<given[1]>>)

\* C30: every calendar export of an event with a start date (the Google link,
\* the Outlook link, the county file, the feed of all events and the file of
\* the event) carries the resolved start date as its start, and an exclusive
\* end that is strictly later than the start.
C30_ExportsStartOnStartAndEndLater ==
  (call = "everyOperation" /\ ResolvedStart(given[1]) # <<>>) =>
    LET start == Compact(ResolvedStart(given[1]))
    IN  /\ returned.google.start = start
        /\ returned.google.end > start
        /\ Compact(returned.outlook.startdt.date) = start
        /\ Compact(returned.outlook.enddt.date) > start
        /\ returned.single[1].dtstart = start
        /\ returned.single[1].dtend > start
        /\ returned.feed[1].dtstart = start
        /\ returned.feed[1].dtend > start
        /\ CountyExport[1].dtstart = start
        /\ CountyExport[1].dtend > start

====
